---- MODULE Spec2Model ----
(***************************************************************************)
(* Model of the protoedit document core: the scalar codec (typedefs.rs),   *)
(* the wire decoder/encoder and the path-addressed document model with its *)
(* self-inverting changes (wire.rs, trz.rs).                               *)
(*                                                                         *)
(* Machine integers are modelled as sets of set bit positions, so i128,    *)
(* i64, i32 and u32 values keep their exact width: a cast is an            *)
(* intersection with the bits of the target width, a shift moves the bit   *)
(* positions, a mask intersects.  A byte is an Int in 0..255.  u32 byte    *)
(* budgets (`limit`) are held as the two's complement representative of    *)
(* the 32-bit pattern (2^32 - 1 is -1), compared as unsigned.              *)
(***************************************************************************)
EXTENDS Integers, Sequences, FiniteSets, TLC

VARIABLES
  build,    \* "debug" (overflow checks and debug assertions on) or "release"
  vmode,    \* codec run: "roundtrip" (write then read a value) or "raw" (read given bytes)
  vpc,      \* codec run: "start", "written", "read"
  vval,     \* codec run: the i128 value given to write_varint
  vsrc,     \* codec run: the bytes in the reader
  vlimit,   \* codec run: the byte budget handed to read_varint
  vres,     \* codec run: the result of read_varint
  wpc,      \* wire run: "start", "decoded", "written"
  input,    \* wire run: the bytes B handed to MessageData::new with budget |B|
  dec,      \* wire run: the result of MessageData::new
  output,   \* wire run: the bytes MessageData::write emitted
  doc,      \* document run: the root MessageData
  call,     \* document run: the operation in progress: its name, path, the
            \*   document before it and the change object as it was built
  results,  \* document run: one entry per call made with this change object
  run,      \* document run: the values inserted so far at successive indices
  sdata,    \* field-order run: the MessageData whose fields are listed
  sres,     \* field-order run: the result of get_sorted_fields per order asked
  level_indents, \* indentation run: IndentsCalc.level_indents of one layout pass
  app_data, \* view run: App.data, the root MessageData
  field_order, \* view run: App.layout_config.field_order
  app_height, \* view run: App.height, the terminal height
  app_width, \* view run: App.layouts.width, the terminal width
  test_mode, \* view run: App.test_mode: after_event does not draw the screen
  app_layouts, \* view run: App.layouts: items, top_layouts_count, height, scroll
  app_selected, \* view run: App.selected, the cursor
  app_result, \* view run: the kind of CommandResult the last command gave
  hist,     \* view run: what the commands so far did (for the properties)
  file_path, \* save run: Layouts.file_path, the path of the opened file
  disk,     \* save run: the files of the directory, by path
  spc       \* save run: the position of save_document and its temp_path

varintVars == <<vmode, vpc, vval, vsrc, vlimit, vres>>
wireVars == <<wpc, input, dec, output>>
docVars == <<doc, call, results, run>>
sortVars == <<sdata, sres>>
indentVars == <<level_indents>>
saveVars == <<file_path, disk, spc>>
viewVars == <<app_data, field_order, app_height, app_width, test_mode, app_layouts, app_selected,
             app_result, hist>>

\* ---------------------------------------------------------------- bounds
VarintBits == 70      \* widest value read_varint/varint_size accept
MaxRawLen == 11       \* longest raw byte string handed to read_varint
RawBytes == {1, 255}  \* a terminating byte and a continuation byte
MaxWireLen == 4       \* longest byte string handed to MessageData::new
\* 00 01 02: small values and lengths (as tags: field 0, undeclared)
\* 08 10 12 1A 22: tags of fields 1, 2 (varint), 2 (packed), 3 and 4
\* 0B 0C: group tags of field 1; 38 3A 3B 3C: tags of the undeclared field 7
\* (varint, length-delimited, groups); 80: continuation
WireBytes == {0, 1, 2, 8, 16, 18, 26, 34, 11, 12, 56, 58, 59, 60, 128}
MaxFields == 3        \* most fields (at all depths) a document grows to
MaxIndex == 2         \* largest occurrence index in a path step
MaxApply == 3         \* most calls of apply with one change object

\* ------------------------------------------------------ machine integers
Bits(n) == 0 .. (n - 1)

RECURSIVE ToInt(_)
ToInt(S) == IF S = {} THEN 0
            ELSE LET b == CHOOSE x \in S : TRUE IN 2^b + ToInt(S \ {b})

BitsOfByte(b) == {i \in 0..7 : (b \div (2^i)) % 2 = 1}

\* i128 left shift: bits pushed past bit 127 are lost
Shl(S, k) == {b + k : b \in S} \cap Bits(128)
\* i128 arithmetic right shift: the sign bit is replicated
Shr(S, k) == {b - k : b \in {x \in S : x >= k}}
             \cup (IF 127 \in S THEN (128 - k) .. 127 ELSE {})

\* u32 held as its two's complement representative
U32Rep(S) == ToInt(S \cap Bits(31)) - (IF 31 \in S THEN 2^30 + 2^30 ELSE 0)
U32Ge(a, b) == IF (a < 0) = (b < 0) THEN a >= b ELSE a < 0

\* -------------------------------------------------------------- PbReader
\* A reader is [src |-> bytes, pos |-> bytes consumed]; results carry the
\* reader and the budget as the call left them.
RdOk(v, rd, limit) == [res |-> "ok", value |-> v, rd |-> rd, limit |-> limit]
RdErr(kind, rd, limit) == [res |-> "err", value |-> kind, rd |-> rd, limit |-> limit]
RdPanic(rd, limit) == [res |-> "panic", value |-> "overflow", rd |-> rd, limit |-> limit]

RECURSIVE read_varint_loop(_, _, _, _, _)
read_varint_loop(bld, rd, limit, value, bits_read) ==
  IF rd.pos >= Len(rd.src)
  THEN RdErr("UnexpectedEof", rd, limit)            \* reader.read returned 0
  ELSE LET byte == rd.src[rd.pos + 1]
           got  == [rd EXCEPT !.pos = rd.pos + 1]   \* the byte is consumed
       IN IF limit = 0 /\ bld = "debug"
          THEN RdPanic(got, limit)                  \* *limit -= 1 on 0u32
          ELSE LET l1 == limit - 1                  \* wraps to u32::MAX in release
               IN IF byte < 128
                  THEN RdOk(value \cup Shl(BitsOfByte(byte), bits_read), got, l1)
                  ELSE IF l1 = 0
                       THEN RdErr("UnexpectedEof", got, l1)
                       ELSE IF bits_read > 64 - 8
                            THEN RdErr("InvalidData", got, l1)
                            ELSE read_varint_loop(bld, got, l1,
                                   value \cup Shl(BitsOfByte(byte) \ {7}, bits_read),
                                   bits_read + 7)

read_varint(bld, rd, limit) == read_varint_loop(bld, rd, limit, {}, 0)

\* ------------------------------------------------------ CommonFieldProto
RECURSIVE write_varint_loop(_, _)
write_varint_loop(data, buf) ==
  IF \E b \in data : b > 6                          \* (data as u128) > 0x7f
  THEN write_varint_loop(Shr(data, 7) \cap Bits(63),
                         Append(buf, ToInt(data \cap Bits(7)) + 128))
  ELSE Append(buf, ToInt(data \cap Bits(8)))

\* the loop test of the commented-out line: while data & 0x80 != 0
RECURSIVE write_varint_bit7_loop(_, _)
write_varint_bit7_loop(data, buf) ==
  IF 7 \in data
  THEN write_varint_bit7_loop(Shr(data, 7) \cap Bits(63),
                              Append(buf, ToInt(data \cap Bits(7)) + 128))
  ELSE Append(buf, ToInt(data \cap Bits(8)))

write_varint_bit7(data) == write_varint_bit7_loop(data, <<>>)

write_varint(data) == write_varint_loop(data, <<>>)

\* ----------------------------------------------------------- ScalarValue
\* value <= 2^k - 1 for a non-negative i128
LeMask(value, k) == value \subseteq Bits(k)

\* 0 stands for the todo!()/panic!() exits
varint_size(value) ==
  IF 127 \in value THEN 0
  ELSE IF LeMask(value, 7) THEN 1
  ELSE IF LeMask(value, 14) THEN 2
  ELSE IF LeMask(value, 21) THEN 3
  ELSE IF LeMask(value, 28) THEN 4
  ELSE IF LeMask(value, 35) THEN 5
  ELSE IF LeMask(value, 42) THEN 6
  ELSE IF LeMask(value, 49) THEN 7
  ELSE IF LeMask(value, 56) THEN 8
  ELSE IF LeMask(value, 63) THEN 9
  ELSE IF LeMask(value, 70) THEN 10
  ELSE 0

\* ------------------------------------------------------------ the wire
WT_VARINT == 0
WT_I64 == 1
WT_LEN == 2
WT_SGROUP == 3
WT_EGROUP == 4
WT_I32 == 5

\* a non-negative Int below 2^31 as a bit pattern
IntBits(n) == {i \in 0 .. 30 : (n \div (2^i)) % 2 = 1}
\* an i32 bit pattern as an Int
I32Int(S) == U32Rep(S)
\* i32 -> i128 (sign extension)
SignExtend32(S) == (S \cap Bits(32)) \cup (IF 31 \in S THEN 32 .. 127 ELSE {})
\* i32 arithmetic right shift
Shr32(S, k) == {b - k : b \in {x \in S \cap Bits(32) : x >= k}}
               \cup (IF 31 \in S THEN (32 - k) .. 31 ELSE {})
\* the n low bytes of a bit pattern, little endian
LeBytes(S, n) == [i \in 1 .. n |-> ToInt({b - 8 * (i - 1) : b \in S \cap (8 * (i - 1) .. 8 * i - 1)})]
\* a little endian byte string as a bit pattern
RECURSIVE FromLeBytes(_)
FromLeBytes(buf) ==
  IF buf = <<>> THEN {}
  ELSE BitsOfByte(Head(buf)) \cup {b + 8 : b \in FromLeBytes(Tail(buf))}

RECURSIVE TrimZeroes(_)
TrimZeroes(vec) ==
  IF vec # <<>> /\ vec[Len(vec)] = 0 THEN TrimZeroes(SubSeq(vec, 1, Len(vec) - 1))
  ELSE vec

\* Tag
field_id(tag) == I32Int(Shr32(tag.first_number, 3))
tag_wire_type(tag) == ToInt(tag.first_number \cap Bits(3))
auto_length(tag) == tag_wire_type(tag) \in {WT_VARINT, WT_I64, WT_I32}

\* ------------------------------------------------------------- schema
\* message M  { int32 f1 = 1; repeated int32 f2 = 2; M3 m3 = 3; string s4 = 4; }
\* message M3 { int32 g1 = 1; bool b2 = 2; }
\* message M1 { repeated int32 a3 = 3; int32 c1 = 1; int32 b2 = 2; int32 d4 = 4; }
\* and, as MM, MM3 and MM6, the messages M, M3 and M6 of make_test_data_1:
\* message M  { int32 f1 = 1; repeated int32 f2 = 2; M3 m3 = 3; int32 f4 = 4; }
\* message M3 { int32 f5 = 5; repeated M6 m6 = 6; int32 f7 = 7; }
\* message M6 { int32 f8 = 8; int32 f9 = 9; }
\* and, as ME, a message of the editing tests with a field of every
\* editor: message ME { string s1 = 1; bytes b2 = 2; int32 i3 = 3; }
\* and, as MI, a message whose field names differ in length:
\* message MI { int32 a1 = 1; int32 wide5 = 2; MJ mj = 3; }
\* message MJ { int32 b1 = 1; int32 deeper = 2; }
Schema ==
  [M  |-> << [id |-> 1, name |-> "f1", type |-> "int32",  repeated |-> FALSE],
             [id |-> 2, name |-> "f2", type |-> "int32",  repeated |-> TRUE],
             [id |-> 3, name |-> "m3", type |-> "M3",     repeated |-> FALSE],
             [id |-> 4, name |-> "s4", type |-> "string", repeated |-> FALSE] >>,
   M3 |-> << [id |-> 1, name |-> "g1", type |-> "int32",  repeated |-> FALSE],
             [id |-> 2, name |-> "b2", type |-> "bool",   repeated |-> FALSE] >>,
   M1 |-> << [id |-> 3, name |-> "a3", type |-> "int32",  repeated |-> TRUE],
             [id |-> 1, name |-> "c1", type |-> "int32",  repeated |-> FALSE],
             [id |-> 2, name |-> "b2", type |-> "int32",  repeated |-> FALSE],
             [id |-> 4, name |-> "d4", type |-> "int32",  repeated |-> FALSE] >>,
   MM |-> << [id |-> 1, name |-> "f1", type |-> "int32",  repeated |-> FALSE],
             [id |-> 2, name |-> "f2", type |-> "int32",  repeated |-> TRUE],
             [id |-> 3, name |-> "m3", type |-> "MM3",    repeated |-> FALSE],
             [id |-> 4, name |-> "f4", type |-> "int32",  repeated |-> FALSE] >>,
   MM3 |-> << [id |-> 5, name |-> "f5", type |-> "int32", repeated |-> FALSE],
              [id |-> 6, name |-> "m6", type |-> "MM6",   repeated |-> TRUE],
              [id |-> 7, name |-> "f7", type |-> "int32", repeated |-> FALSE] >>,
   MM6 |-> << [id |-> 8, name |-> "f8", type |-> "int32", repeated |-> FALSE],
              [id |-> 9, name |-> "f9", type |-> "int32", repeated |-> FALSE] >>,
   ME |-> << [id |-> 1, name |-> "s1", type |-> "string", repeated |-> FALSE],
             [id |-> 2, name |-> "b2", type |-> "bytes",  repeated |-> FALSE],
             [id |-> 3, name |-> "i3", type |-> "int32",  repeated |-> FALSE] >>,
   MI |-> << [id |-> 1, name |-> "a1",    type |-> "int32", repeated |-> FALSE],
             [id |-> 2, name |-> "wide5", type |-> "int32", repeated |-> FALSE],
             [id |-> 3, name |-> "mj",    type |-> "MJ",    repeated |-> FALSE] >>,
   MJ |-> << [id |-> 1, name |-> "b1",     type |-> "int32", repeated |-> FALSE],
             [id |-> 2, name |-> "deeper", type |-> "int32", repeated |-> FALSE] >>]

RootMessage == "M"

\* In(value) with value worked out once
With(value, In(_)) == In(value)

UnknownFieldDefinition == [id |-> 0, name |-> "???", type |-> "unknown", repeated |-> TRUE]

None == [kind |-> "None"]

\* MessageProto::get_field
proto_get_field(def, number) ==
  IF \E i \in 1 .. Len(Schema[def]) : Schema[def][i].id = number
  THEN Schema[def][CHOOSE i \in 1 .. Len(Schema[def]) :
                     /\ Schema[def][i].id = number
                     /\ \A j \in 1 .. (i - 1) : Schema[def][j].id # number]
  ELSE None

is_message(fd) == fd.type \in DOMAIN Schema

wire_type(fd) ==
  IF fd.type \in {"string", "bytes"} \/ is_message(fd) THEN WT_LEN ELSE WT_VARINT

\* ScalarValue / FieldValue
I32(S) == [kind |-> "I32", bits |-> S]
BOOL(b) == [kind |-> "BOOL", bits |-> IF b THEN {0} ELSE {}]
STR(buf) == [kind |-> "STR", bytes |-> buf]
BYTES(buf) == [kind |-> "BYTES", bytes |-> buf]
UNKNOWN(tag, buf) == [kind |-> "UNKNOWN", tag |-> tag, bytes |-> buf]
MESSAGE(def, fields) == [kind |-> "MESSAGE", def |-> def, fields |-> fields]

FieldData(fd, pos, value) == [def |-> fd, pos |-> pos, value |-> value]

\* "wrong unicode data"
WrongUnicode == <<119, 114, 111, 110, 103, 32, 117, 110, 105, 99, 111, 100, 101, 32, 100, 97, 116, 97>>

\* String::from_utf8 succeeds; the inputs carry no UTF-8 lead byte
\* (0xC2..0xF4), so a buffer is valid exactly when every byte is ASCII
Utf8Valid(buf) == \A i \in 1 .. Len(buf) : buf[i] < 128

\* a default() that gives every field the int32 default
default_as_int32(fd) == I32({})

\* FieldProto::default
field_default(fd) ==
  IF is_message(fd) THEN MESSAGE(fd.type, <<>>)
  ELSE IF fd.type = "string" THEN STR(<<>>)
  ELSE IF fd.type = "bytes" THEN BYTES(<<>>)
  ELSE IF fd.type = "bool" THEN BOOL(FALSE)
  ELSE IF fd.type = "int32" THEN I32({})
  ELSE UNKNOWN([first_number |-> {}, length |-> 0], <<>>)

\* ------------------------------------------------------------ reading
read_len(rd, length, limit) ==
  IF U32Ge(limit, length)
  THEN IF length < 0 \/ rd.pos + length > Len(rd.src)
       THEN RdErr("UnexpectedEof", [rd EXCEPT !.pos = Len(rd.src)], limit - length)
       ELSE RdOk(SubSeq(rd.src, rd.pos + 1, rd.pos + length),
                 [rd EXCEPT !.pos = rd.pos + length], limit - length)
  ELSE RdErr("UnexpectedEof", rd, limit)

\* read_tag whose group arm names WT_SGROUP only
read_tag_sgroup(bld, rd, limit) ==
  LET first == read_varint(bld, rd, limit) IN
  IF first.res # "ok" THEN first
  ELSE LET first_number == first.value \cap Bits(32)
           wt == ToInt(first_number \cap Bits(3))
       IN IF wt \in {WT_VARINT, WT_I32, WT_I64}
          THEN RdOk([first_number |-> first_number,
                     length |-> IF wt = WT_VARINT THEN 0 ELSE IF wt = WT_I32 THEN 4 ELSE 8],
                    first.rd, first.limit)
          ELSE IF wt = WT_LEN
          THEN LET len == read_varint(bld, first.rd, first.limit) IN
               IF len.res # "ok" THEN len
               ELSE RdOk([first_number |-> first_number,
                          length |-> U32Rep(len.value \cap Bits(32))], len.rd, len.limit)
          ELSE IF wt = WT_SGROUP
          THEN RdErr("Unsupported", first.rd, first.limit)
          ELSE RdErr("InvalidData", first.rd, first.limit)

read_tag(bld, rd, limit) ==
  LET first == read_varint(bld, rd, limit) IN
  IF first.res # "ok" THEN first
  ELSE LET first_number == first.value \cap Bits(32)
           wt == ToInt(first_number \cap Bits(3))
       IN IF wt = WT_VARINT
          THEN RdOk([first_number |-> first_number, length |-> 0], first.rd, first.limit)
          ELSE IF wt = WT_I32
          THEN RdOk([first_number |-> first_number, length |-> 4], first.rd, first.limit)
          ELSE IF wt = WT_I64
          THEN RdOk([first_number |-> first_number, length |-> 8], first.rd, first.limit)
          ELSE IF wt = WT_LEN
          THEN LET len == read_varint(bld, first.rd, first.limit) IN
               IF len.res # "ok" THEN len
               ELSE RdOk([first_number |-> first_number,
                          length |-> U32Rep(len.value \cap Bits(32))], len.rd, len.limit)
          ELSE IF wt \in {WT_SGROUP, WT_EGROUP}
          THEN RdErr("Unsupported", first.rd, first.limit)
          ELSE RdErr("InvalidData", first.rd, first.limit)

\* FieldProto::read of the declared scalar types
field_read(bld, fd, rd, limit, field_len) ==
  IF fd.type = "string"
  THEN LET r == read_len(rd, field_len, limit) IN
       IF r.res # "ok" THEN r
       ELSE RdOk(STR(IF Utf8Valid(r.value) THEN r.value ELSE WrongUnicode), r.rd, r.limit)
  ELSE IF fd.type = "bytes"
  THEN LET r == read_len(rd, field_len, limit) IN
       IF r.res # "ok" THEN r ELSE RdOk(BYTES(r.value), r.rd, r.limit)
  ELSE LET r == read_varint(bld, rd, limit) IN
       IF r.res # "ok" THEN r
       ELSE IF fd.type = "bool"
            THEN RdOk(BOOL(r.value # {}), r.rd, r.limit)
            ELSE RdOk(I32(r.value \cap Bits(32)), r.rd, r.limit)

read_unknown(bld, rd, limit, tlv) ==
  IF tlv.length = 0
  THEN LET r == read_varint(bld, rd, limit) IN
       IF r.res # "ok" THEN r
       ELSE RdOk(UNKNOWN(tlv, TrimZeroes(LeBytes(r.value \cap Bits(64), 8))), r.rd, r.limit)
  ELSE LET r == read_len(rd, tlv.length, limit) IN
       IF r.res # "ok" THEN r
       ELSE RdOk(UNKNOWN(tlv, r.value), r.rd, r.limit)

\* the packed branch: while *limit > 0 { push(read) }
RECURSIVE read_packed(_, _, _, _, _, _)
read_packed(bld, fd, rd, limit, field_len, flds) ==
  IF limit = 0 THEN RdOk(flds, rd, limit)
  ELSE LET r == field_read(bld, fd, rd, limit, field_len) IN
       IF r.res # "ok" THEN r
       ELSE read_packed(bld, fd, r.rd, r.limit, field_len,
                        Append(flds, FieldData(fd, rd.pos, r.value)))

RECURSIVE MessageData_new_loop(_, _, _, _, _)
MessageData_new_loop(bld, rd, def, limit, flds) ==
  IF limit = 0 THEN RdOk(MESSAGE(def, flds), rd, limit)
  ELSE
  With(read_tag(bld, rd, limit), LAMBDA t :
  IF t.res # "ok" THEN t
  ELSE
  With(t.value, LAMBDA tag :
  With(proto_get_field(def, field_id(tag)), LAMBDA field_def :
  IF field_def = None
  THEN With(read_unknown(bld, t.rd, t.limit, tag), LAMBDA r :
       IF r.res # "ok" THEN r
       ELSE MessageData_new_loop(bld, r.rd, def, r.limit,
              Append(flds, FieldData(UnknownFieldDefinition, t.rd.pos, r.value))))
  ELSE IF is_message(field_def)
  THEN IF ~U32Ge(t.limit, tag.length) /\ bld = "debug"
       THEN RdPanic(t.rd, t.limit)                 \* *limit -= tag.length
       ELSE With(MessageData_new_loop(bld, t.rd, field_def.type, tag.length, <<>>), LAMBDA sub :
            IF sub.res # "ok" THEN sub
            ELSE MessageData_new_loop(bld, sub.rd, def, t.limit - tag.length,
                   Append(flds, FieldData(field_def, t.rd.pos, sub.value))))
  ELSE IF ~field_def.repeated \/ auto_length(tag) \/ wire_type(field_def) = WT_LEN
  THEN With(field_read(bld, field_def, t.rd, t.limit, tag.length), LAMBDA r :
       IF r.res # "ok" THEN r
       ELSE MessageData_new_loop(bld, r.rd, def, r.limit,
              Append(flds, FieldData(field_def, t.rd.pos, r.value))))
  ELSE With(read_packed(bld, field_def, t.rd, t.limit, tag.length, flds), LAMBDA r :
       IF r.res # "ok" THEN r
       ELSE MessageData_new_loop(bld, r.rd, def, r.limit, r.value)))))

MessageData_new(bld, src, def, limit) ==
  MessageData_new_loop(bld, [src |-> src, pos |-> 0], def, limit, <<>>)

\* ------------------------------------------------------------ writing
\* the ScalarValue variant FieldProto::write of the declared type accepts
\* (every other variant reaches unreachable!())
variant_of(fd) ==
  IF is_message(fd) THEN "ENUM"
  ELSE IF fd.type = "string" THEN "STR"
  ELSE IF fd.type = "bytes" THEN "BYTES"
  ELSE IF fd.type = "bool" THEN "BOOL"
  ELSE IF fd.type = "int32" THEN "I32"
  ELSE "UNKNOWN"

\* FieldProto::write of the declared scalar types (payload only)
field_write(fd, scalar) ==
  IF fd.type \in {"string", "bytes"} THEN scalar.bytes
  ELSE IF fd.type = "bool" THEN write_varint(scalar.bits \cap Bits(1))
  ELSE write_varint(SignExtend32(scalar.bits))

\* UnknownFieldDefinition::write
unknown_write(scalar) ==
  write_varint(SignExtend32(scalar.tag.first_number)) \o
  (IF tag_wire_type(scalar.tag) = WT_VARINT
   THEN write_varint(FromLeBytes(SubSeq(scalar.bytes, 1,
                       IF Len(scalar.bytes) < 16 THEN Len(scalar.bytes) ELSE 16)))
   ELSE (IF ~auto_length(scalar.tag) THEN write_varint(IntBits(scalar.tag.length)) ELSE <<>>)
        \o scalar.bytes)

RECURSIVE MessageData_write(_)
RECURSIVE write_fields(_, _)
write_fields(fields, i) ==
  IF i > Len(fields) THEN <<>>
  ELSE LET field == fields[i] IN
       (IF field.value.kind = "UNKNOWN"
        THEN unknown_write(field.value)
        ELSE write_varint(SignExtend32(IntBits(field.def.id * 8 + wire_type(field.def))))
             \o (IF wire_type(field.def) # WT_LEN
                 THEN (IF field.value.kind # "MESSAGE"
                       THEN field_write(field.def, field.value) ELSE <<>>)
                 ELSE LET buf == IF field.value.kind = "MESSAGE"
                                 THEN MessageData_write(field.value)
                                 ELSE field_write(field.def, field.value)
                      IN write_varint(IntBits(Len(buf))) \o buf))
       \o write_fields(fields, i + 1)

MessageData_write(msg) == write_fields(msg.fields, 1)

\* MessageData::write panics: a field reaches unreachable!() in
\* FieldProto::write or the panic of UnknownFieldDefinition::wire_type
RECURSIVE write_unreachable(_)
write_unreachable(msg) ==
  \E i \in 1 .. Len(msg.fields) :
    LET field == msg.fields[i] IN
    IF field.value.kind = "UNKNOWN"
    THEN field.def.type # "unknown"
    ELSE \/ field.def.type = "unknown"
         \/ /\ field.value.kind = "MESSAGE"
            /\ wire_type(field.def) = WT_LEN
            /\ write_unreachable(field.value)
         \/ /\ field.value.kind # "MESSAGE"
            /\ field.value.kind # variant_of(field.def)

\* ------------------------------------------------------ document model
USIZE_MAX == -1        \* FieldData.pos of a field that was not read from the file

\* FieldData::id
FieldData_id(f) ==
  IF f.value.kind = "UNKNOWN" THEN field_id(f.value.tag) ELSE f.def.id

\* MessageData::get_field_pos: the position (from 1) of the index-th field
\* with this id, 0 for None
RECURSIVE get_field_pos_from(_, _, _, _)
get_field_pos_from(fields, id, index, i) ==
  IF i > Len(fields) THEN 0
  ELSE IF FieldData_id(fields[i]) = id
       THEN IF index = 0 THEN i
            ELSE get_field_pos_from(fields, id, index - 1, i + 1)
       ELSE get_field_pos_from(fields, id, index, i + 1)

\* the search without the occurrence countdown
get_field_pos_first(msg, id, index) == get_field_pos_from(msg.fields, id, 0, 1)

get_field_pos(msg, id, index) == get_field_pos_from(msg.fields, id, index, 1)

split_last(path) == [first |-> path[Len(path)], others |-> SubSeq(path, 1, Len(path) - 1)]

\* MessageData::get_submessage / get_submessage_mut
RECURSIVE get_submessage(_, _)
get_submessage(msg, path) ==
  IF path = <<>> THEN msg
  ELSE LET pos == get_field_pos(msg, Head(path).id, Head(path).index) IN
       IF pos # 0 /\ msg.fields[pos].value.kind = "MESSAGE"
       THEN IF Tail(path) = <<>> THEN msg.fields[pos].value
            ELSE get_submessage(msg.fields[pos].value, Tail(path))
       ELSE None

\* the tree after the message get_submessage_mut(path) refers to has been
\* assigned sub (the path resolves)
RECURSIVE set_submessage(_, _, _)
set_submessage(msg, path, sub) ==
  IF path = <<>> THEN sub
  ELSE LET pos == get_field_pos(msg, Head(path).id, Head(path).index) IN
       [msg EXCEPT !.fields[pos].value = set_submessage(msg.fields[pos].value, Tail(path), sub)]

\* MessageData::get_field / get_field_mut
get_field(msg, path) ==
  IF path = <<>> THEN None
  ELSE LET sp == split_last(path)
           m == get_submessage(msg, sp.others)
       IN IF m = None THEN None
          ELSE LET pos == get_field_pos(m, sp.first.id, sp.first.index) IN
               IF pos = 0 THEN None ELSE m.fields[pos]

InsertAt(seq, pos, e) == SubSeq(seq, 1, pos - 1) \o <<e>> \o SubSeq(seq, pos, Len(seq))
RemoveAt(seq, pos) == SubSeq(seq, 1, pos - 1) \o SubSeq(seq, pos + 1, Len(seq))

\* MessageData::add_field_private with the insert position always at the end
add_field_private_append(msg, id, index) ==
  LET def == proto_get_field(msg.def, id) IN
  IF def = None THEN [ok |-> FALSE, msg |-> msg, pos |-> 0]
  ELSE [ok |-> TRUE,
        msg |-> [msg EXCEPT !.fields = Append(msg.fields, FieldData(def, USIZE_MAX, field_default(def)))],
        pos |-> Len(msg.fields) + 1]

\* MessageData::add_field_private: the message after the insert and the
\* position of the new field
add_field_private(msg, id, index) ==
  LET def == proto_get_field(msg.def, id) IN
  IF def = None THEN [ok |-> FALSE, msg |-> msg, pos |-> 0]
  ELSE LET found == get_field_pos(msg, id, index)
           insert_pos == IF found # 0 THEN found ELSE Len(msg.fields) + 1
       IN [ok |-> TRUE,
           msg |-> [msg EXCEPT !.fields = InsertAt(msg.fields, insert_pos,
                                            FieldData(def, USIZE_MAX, field_default(def)))],
           pos |-> insert_pos]

\* MessageData::delete_field_private: the message after the removal and the
\* removed value
delete_field_private(msg, id, index) ==
  LET del_pos == get_field_pos(msg, id, index) IN
  IF del_pos = 0 THEN [ok |-> FALSE, msg |-> msg, ret |-> None]
  ELSE [ok |-> TRUE,
        msg |-> [msg EXCEPT !.fields = RemoveAt(msg.fields, del_pos)],
        ret |-> msg.fields[del_pos].value]

\* MessageData::add_field: the tree after the insert, the parent path and
\* the position of the new field in the parent
add_field(msg, path) ==
  IF path = <<>> THEN [ok |-> FALSE, msg |-> msg, pos |-> 0]
  ELSE LET sp == split_last(path)
           m == get_submessage(msg, sp.others)
       IN IF m = None THEN [ok |-> FALSE, msg |-> msg, pos |-> 0]
          ELSE LET r == add_field_private(m, sp.first.id, sp.first.index) IN
               IF ~r.ok THEN [ok |-> FALSE, msg |-> msg, pos |-> 0]
               ELSE [ok |-> TRUE, msg |-> set_submessage(msg, sp.others, r.msg), pos |-> r.pos]

\* MessageData::delete_field
delete_field(msg, path) ==
  IF path = <<>> THEN [ok |-> FALSE, msg |-> msg, ret |-> None]
  ELSE LET sp == split_last(path)
           m == get_submessage(msg, sp.others)
       IN IF m = None THEN [ok |-> FALSE, msg |-> msg, ret |-> None]
          ELSE LET r == delete_field_private(m, sp.first.id, sp.first.index) IN
               IF ~r.ok THEN [ok |-> FALSE, msg |-> msg, ret |-> None]
               ELSE [ok |-> TRUE, msg |-> set_submessage(msg, sp.others, r.msg), ret |-> r.ret]

\* ------------------------------------------------------------- changes
Overwrite(path, value) == [path |-> path, action |-> [type |-> "Overwrite", value |-> value]]
Insert(path, value) == [path |-> path, action |-> [type |-> "Insert", value |-> value]]
Delete(path) == [path |-> path, action |-> [type |-> "Delete"]]

\* the field at `path` (which resolves) holding `value`
set_field_value(msg, path, value) ==
  LET sp == split_last(path)
      m == get_submessage(msg, sp.others)
      pos == get_field_pos(m, sp.first.id, sp.first.index)
  IN set_submessage(msg, sp.others, [m EXCEPT !.fields[pos].value = value])

Applied(msg, change) == [ok |-> TRUE, msg |-> msg, change |-> change]
NotApplied(msg, change) == [ok |-> FALSE, msg |-> msg, change |-> change]

\* MessageData::apply, ChangeType::Overwrite: mem::swap with the field
apply_overwrite(msg, change) ==
  LET field == get_field(msg, change.path) IN
  IF field = None THEN NotApplied(msg, change)
  ELSE Applied(set_field_value(msg, change.path, change.action.value),
               Overwrite(change.path, field.value))

\* MessageData::apply, ChangeType::Insert: add_field, swap the value in,
\* rewrite to Delete
apply_insert(msg, change) ==
  LET a == add_field(msg, change.path) IN
  IF ~a.ok THEN NotApplied(msg, change)
  ELSE LET sp == split_last(change.path)
           m == get_submessage(a.msg, sp.others)
       IN Applied(set_submessage(a.msg, sp.others,
                    [m EXCEPT !.fields[a.pos].value = change.action.value]),
                  Delete(change.path))

\* MessageData::apply, ChangeType::Delete: delete_field, rewrite to Insert
\* carrying the removed value
apply_delete(msg, change) ==
  LET d == delete_field(msg, change.path) IN
  IF ~d.ok THEN NotApplied(msg, change)
  ELSE Applied(d.msg, Insert(change.path, d.ret))

\* apply with the Overwrite of the commented-out version: a missing field
\* is created with its default value first
apply_create_missing(msg, change) ==
  IF change.action.type = "Overwrite"
  THEN IF get_field(msg, change.path) # None
       THEN apply_overwrite(msg, change)
       ELSE LET a == add_field(msg, change.path) IN
            IF ~a.ok THEN NotApplied(msg, change)
            ELSE LET sp == split_last(change.path)
                     m == get_submessage(a.msg, sp.others)
                 IN Applied(set_submessage(a.msg, sp.others,
                              [m EXCEPT !.fields[a.pos].value = change.action.value]),
                            Overwrite(change.path, m.fields[a.pos].value))
  ELSE IF change.action.type = "Insert" THEN apply_insert(msg, change)
  ELSE apply_delete(msg, change)

\* apply with the Overwrite value copied into the field instead of swapped
apply_copy(msg, change) ==
  IF change.action.type = "Overwrite"
  THEN IF get_field(msg, change.path) = None THEN NotApplied(msg, change)
       ELSE Applied(set_field_value(msg, change.path, change.action.value), change)
  ELSE IF change.action.type = "Insert" THEN apply_insert(msg, change)
  ELSE apply_delete(msg, change)

\* MessageData::apply: the document and the change object after the call
apply(msg, change) ==
  IF change.action.type = "Overwrite" THEN apply_overwrite(msg, change)
  ELSE IF change.action.type = "Insert" THEN apply_insert(msg, change)
  ELSE apply_delete(msg, change)

\* ------------------------------------------------------- the codec run
\* values with at most two set bits, and the all-ones values 2^(t+1) - 1
SampleValues == {{}} \cup {{a, b} : a, b \in Bits(VarintBits)}
                     \cup {0 .. t : t \in Bits(VarintBits)}

RawInputs == UNION {[1 .. n -> RawBytes] : n \in 0 .. MaxRawLen}

NoRead == [res |-> "none", value |-> {}, rd |-> [src |-> <<>>, pos |-> 0], limit |-> 0]

WireIdle ==
  /\ wpc = "idle" /\ input = <<>> /\ dec = NoRead /\ output = <<>>

VarintIdle ==
  /\ vmode = "idle" /\ vpc = "idle" /\ vval = {} /\ vsrc = <<>>
  /\ vlimit = 0 /\ vres = NoRead

NoChange == [path |-> <<>>, action |-> [type |-> "None"]]
NoCall == [op |-> "none", path |-> <<>>, before |-> None, change |-> NoChange]
NoRun == [parent |-> <<>>, id |-> 0, vals |-> <<>>]

DocIdle ==
  /\ doc = None /\ call = NoCall /\ results = <<>> /\ run = NoRun

SortIdle ==
  /\ sdata = None /\ sres = <<>>

IndentIdle == level_indents = <<>>

NoPath == [stem |-> "", ext |-> ""]
SaveIdle ==
  /\ file_path = NoPath /\ disk = <<>> /\ spc = None

ViewIdle ==
  /\ app_data = None /\ field_order = "Proto" /\ app_height = 0 /\ app_width = 0
  /\ test_mode = TRUE
  /\ app_layouts = None /\ app_selected = None /\ app_result = None /\ hist = None

VarintInit ==
  /\ build \in {"debug", "release"}
  /\ WireIdle
  /\ DocIdle
  /\ SortIdle
  /\ SaveIdle
  /\ IndentIdle
  /\ ViewIdle
  /\ vpc = "start"
  /\ vres = NoRead
  /\ \/ /\ vmode = "roundtrip"
        /\ vval \in SampleValues
        /\ vsrc = <<>>
        /\ vlimit = 0
     \/ /\ vmode = "raw"
        /\ vval = {}
        /\ vsrc \in RawInputs
        /\ vlimit \in 0 .. MaxRawLen + 1

WriteVarint ==
  /\ vmode = "roundtrip" /\ vpc = "start"
  /\ vsrc' = write_varint(vval)
  /\ vlimit' = Len(vsrc')
  /\ vpc' = "written"
  /\ UNCHANGED <<build, sortVars, saveVars, indentVars, viewVars, vmode, vval, vres, wireVars, docVars>>

ReadVarint ==
  /\ \/ vmode = "roundtrip" /\ vpc = "written"
     \/ vmode = "raw" /\ vpc = "start"
  /\ vres' = read_varint(build, [src |-> vsrc, pos |-> 0], vlimit)
  /\ vpc' = "read"
  /\ UNCHANGED <<build, sortVars, saveVars, indentVars, viewVars, vmode, vval, vsrc, vlimit, wireVars, docVars>>

VarintNext == WriteVarint \/ ReadVarint

vars == <<build, varintVars, wireVars, docVars, sortVars, indentVars, viewVars, saveVars>>

SpecVarint == VarintInit /\ [][VarintNext]_vars

\* -------------------------------------------------------- the wire run
WireInputs == UNION {[1 .. n -> WireBytes] : n \in 0 .. MaxWireLen}

WireInit ==
  /\ build \in {"debug", "release"}
  /\ VarintIdle
  /\ DocIdle
  /\ SortIdle
  /\ SaveIdle
  /\ IndentIdle
  /\ ViewIdle
  /\ wpc = "start"
  /\ input \in WireInputs
  /\ dec = NoRead
  /\ output = <<>>

Decode ==
  /\ wpc = "start"
  /\ dec' = MessageData_new(build, input, RootMessage, Len(input))
  /\ wpc' = "decoded"
  /\ UNCHANGED <<build, sortVars, saveVars, indentVars, viewVars, varintVars, docVars, input, output>>

Encode ==
  /\ wpc = "decoded" /\ dec.res = "ok"
  /\ ~write_unreachable(dec.value)
  /\ output' = MessageData_write(dec.value)
  /\ wpc' = "written"
  /\ UNCHANGED <<build, sortVars, saveVars, indentVars, viewVars, varintVars, docVars, input, dec>>

WireNext == Decode \/ Encode

SpecWire == WireInit /\ [][WireNext]_vars

\* ------------------------------------------------------------------ C1
\* C1: for every byte string B that MessageData::new decodes successfully
\* with budget |B|, MessageData::write on the unedited result emits
\* exactly B (scalars, nested messages, repeated fields unpacked and
\* packed, unknown fields).
WireRoundTrip == wpc = "written" => output = input

\* ------------------------------------------------------------------ C9
\* the boundary table: the least k in 1..10 with v < 2^(7k)
TableLen(v) == CHOOSE k \in 1 .. 10 :
                 /\ v \subseteq Bits(7 * k)
                 /\ \A j \in 1 .. (k - 1) : ~(v \subseteq Bits(7 * j))

\* C9: for every v in [0, 2^70), read_varint over the bytes of
\* write_varint(v) with a budget equal to their length returns v, consumes
\* all of them and leaves the budget at 0, and the number of bytes written
\* is varint_size(v), which follows the boundary table (1 byte up to 127,
\* 2 up to 16383, ... 10 bytes).
VarintRoundTrip ==
  /\ (vmode = "roundtrip" /\ vpc # "start") =>
        /\ Len(vsrc) = varint_size(vval)
        /\ Len(vsrc) = TableLen(vval)
  /\ (vmode = "roundtrip" /\ vpc = "read") =>
        /\ vres.res = "ok"
        /\ vres.value = vval
        /\ vres.rd.pos = Len(vsrc)
        /\ vres.limit = 0

\* a ten-byte value has been written and read back
VarintRoundTripWitness ==
  /\ vmode = "roundtrip" /\ vpc = "read"
  /\ 69 \in vval /\ Len(vsrc) = 10 /\ vres.res = "ok"

\* ----------------------------------------------------------------- C10
LeadingCont(src) ==
  IF \E i \in 1 .. Len(src) : src[i] < 128
  THEN (CHOOSE i \in 1 .. Len(src) :
          src[i] < 128 /\ \A j \in 1 .. (i - 1) : src[j] >= 128) - 1
  ELSE Len(src)

\* more continuation bytes than 70 bits hold, no terminating byte in the
\* source, or a budget that is used up before the terminating byte
VarintMustFail ==
  \/ LeadingCont(vsrc) >= 10
  \/ LeadingCont(vsrc) = Len(vsrc)
  \/ vlimit <= LeadingCont(vsrc)

\* C10: read_varint returns a decode error, never a value, when the input
\* has too many continuation bytes, when the source ends before a
\* terminating byte, or when the budget is at zero before a terminating
\* byte has been read (zero on entry included); and it never consumes a
\* byte beyond the budget.
VarintRejects ==
  (vmode = "raw" /\ vpc = "read") =>
     /\ VarintMustFail => vres.res = "err"
     /\ vres.rd.pos <= vlimit

\* ---------------------------------------------------- the document run
Step(id, index) == [id |-> id, index |-> index]

\* last steps in the root message: the repeated int32 field f2, the message
\* field m3 and 7, which M does not declare
StepIds == {2, 3, 7}
Steps == {Step(id, index) : id \in StepIds, index \in 0 .. MaxIndex}
\* first steps of two-step paths: the message field, a second occurrence
\* of it, and a scalar field; last steps in M3: g1 and 9, which M3 does not
\* declare
FirstSteps == {Step(3, 0), Step(3, 1), Step(2, 0)}
SecondSteps == {Step(id, index) : id \in {1, 9}, index \in 0 .. 1}
DocPaths == {<<st>> : st \in Steps}
            \cup {<<a, b>> : a \in FirstSteps, b \in SecondSteps}

\* MessageData::get_field_definition
get_field_definition(msg, path) ==
  IF path = <<>> THEN None
  ELSE LET sp == split_last(path)
           parent == get_submessage(msg, sp.others)
       IN IF parent = None THEN None ELSE proto_get_field(parent.def, sp.first.id)

\* the values the editor builds changes with, of the field's declared type:
\* for Insert a value that differs between neighbouring indices (4 or 5 for
\* an int32), for Overwrite one other value (8 for an int32; for an
\* unknown field other payload bytes under its tag)
InsertValue(fd, index) ==
  IF fd = None THEN I32(IntBits(4 + (index % 2)))
  ELSE IF is_message(fd) THEN MESSAGE(fd.type, <<>>)
  ELSE IF fd.type = "string" THEN STR(<<97>>)
  ELSE IF fd.type = "bool" THEN BOOL(TRUE)
  ELSE I32(IntBits(4 + (index % 2)))

OverwriteValue(fd, field) ==
  IF field # None /\ field.value.kind = "UNKNOWN" THEN UNKNOWN(field.value.tag, <<9>>)
  ELSE IF fd = None THEN I32({3})
  ELSE IF is_message(fd)
       THEN MESSAGE(fd.type, <<FieldData(Schema[fd.type][1], USIZE_MAX, I32({0}))>>)
  ELSE IF fd.type = "string" THEN STR(<<98>>)
  ELSE IF fd.type = "bool" THEN BOOL(FALSE)
  ELSE I32({3})

ChangesFor(msg, path) ==
  LET fd == get_field_definition(msg, path) IN
  {Insert(path, InsertValue(fd, path[Len(path)].index)), Delete(path),
   Overwrite(path, OverwriteValue(fd, get_field(msg, path)))}

RECURSIVE CountFields(_)
RECURSIVE CountFrom(_, _)
CountFrom(fields, i) ==
  IF i > Len(fields) THEN 0
  ELSE 1 + (IF fields[i].value.kind = "MESSAGE" THEN CountFields(fields[i].value) ELSE 0)
         + CountFrom(fields, i + 1)
CountFields(msg) == CountFrom(msg.fields, 1)

\* documents the run starts from: the empty file and 38 05 10 01
DocSamples == {<<>>, <<56, 5, 16, 1>>}

\* the path operations do no arithmetic that depends on the build
DocInit ==
  /\ build = "release"
  /\ VarintIdle
  /\ WireIdle
  /\ SortIdle
  /\ SaveIdle
  /\ IndentIdle
  /\ ViewIdle
  /\ \E b \in DocSamples : doc = MessageData_new(build, b, RootMessage, Len(b)).value
  /\ call = NoCall
  /\ results = <<>>
  /\ run = NoRun

Result(ok, msg, change, ret) == [ok |-> ok, doc |-> msg, change |-> change, ret |-> ret]

\* the change object as the last call left it
CurrentChange == IF results = <<>> THEN call.change ELSE results[Len(results)].change

\* the successive-insert record after a first apply of `change`
RunAfter(change, ok) ==
  IF ~ok THEN run
  ELSE IF change.action.type # "Insert" THEN NoRun
  ELSE LET sp == split_last(change.path) IN
       IF sp.first.index = 0
       THEN [parent |-> sp.others, id |-> sp.first.id, vals |-> <<change.action.value>>]
       ELSE IF /\ run # NoRun /\ run.parent = sp.others /\ run.id = sp.first.id
               /\ sp.first.index = Len(run.vals)
            THEN [run EXCEPT !.vals = Append(run.vals, change.action.value)]
            ELSE NoRun

\* App::after_command: a change built by a renderer is applied
ApplyNew ==
  /\ call.op = "none"
  /\ \E path \in DocPaths : \E change \in ChangesFor(doc, path) :
       /\ change.action.type = "Insert" => CountFields(doc) + CountFields([fields |-> <<[value |-> change.action.value]>>]) <= MaxFields
       /\ LET r == apply(doc, change) IN
          /\ doc' = r.msg
          /\ call' = [op |-> "apply", path |-> path, before |-> doc, change |-> change]
          /\ results' = <<Result(r.ok, r.msg, r.change, None)>>
          /\ run' = RunAfter(change, r.ok)
  /\ UNCHANGED <<build, sortVars, saveVars, indentVars, viewVars, varintVars, wireVars>>

\* the same change object is applied again (undo, redo)
ApplyAgain ==
  /\ call.op = "apply"
  /\ Len(results) < MaxApply
  /\ LET r == apply(doc, CurrentChange) IN
     /\ doc' = r.msg
     /\ results' = Append(results, Result(r.ok, r.msg, r.change, None))
     /\ run' = IF r.ok THEN NoRun ELSE run
  /\ UNCHANGED <<build, sortVars, saveVars, indentVars, viewVars, varintVars, wireVars, call>>

AddField ==
  /\ call.op = "none"
  /\ CountFields(doc) < MaxFields
  /\ \E path \in DocPaths :
       LET r == add_field(doc, path) IN
       /\ doc' = r.msg
       /\ call' = [op |-> "add_field", path |-> path, before |-> doc, change |-> NoChange]
       /\ results' = <<Result(r.ok, r.msg, NoChange,
                              IF r.ok THEN get_submessage(r.msg, split_last(path).others).fields[r.pos]
                              ELSE None)>>
       /\ run' = IF r.ok THEN NoRun ELSE run
  /\ UNCHANGED <<build, sortVars, saveVars, indentVars, viewVars, varintVars, wireVars>>

DeleteField ==
  /\ call.op = "none"
  /\ \E path \in DocPaths :
       LET r == delete_field(doc, path) IN
       /\ doc' = r.msg
       /\ call' = [op |-> "delete_field", path |-> path, before |-> doc, change |-> NoChange]
       /\ results' = <<Result(r.ok, r.msg, NoChange, r.ret)>>
       /\ run' = IF r.ok THEN NoRun ELSE run
  /\ UNCHANGED <<build, sortVars, saveVars, indentVars, viewVars, varintVars, wireVars>>

GetField ==
  /\ call.op = "none"
  /\ \E path \in DocPaths :
       LET r == get_field(doc, path) IN
       /\ call' = [op |-> "get_field", path |-> path, before |-> doc, change |-> NoChange]
       /\ results' = <<Result(r # None, doc, NoChange, r)>>
  /\ UNCHANGED <<build, sortVars, saveVars, indentVars, viewVars, varintVars, wireVars, doc, run>>

\* the caller is done with the change object or the returned reference
DropChange ==
  /\ call.op # "none"
  /\ call' = NoCall
  /\ results' = <<>>
  /\ UNCHANGED <<build, sortVars, saveVars, indentVars, viewVars, varintVars, wireVars, doc, run>>

DocNext == ApplyNew \/ ApplyAgain \/ AddField \/ DeleteField \/ GetField \/ DropChange

SpecDoc == DocInit /\ [][DocNext]_vars

\* ------------------------------------------------------------------ C2
\* one field numbered 7 (declared by neither M nor M3) in wire form: a
\* one-byte varint, or a length-delimited field of the length its length
\* byte states
IsUnknownField(b) ==
  /\ Len(b) >= 2
  /\ \/ b[1] = 56 /\ Len(b) = 2 /\ b[2] < 128
     \/ b[1] = 58 /\ b[2] < 128 /\ Len(b) = 2 + b[2]

UnknownAt(fields, b) ==
  /\ Len(fields) = 1
  /\ fields[1].value.kind = "UNKNOWN"
  /\ field_id(fields[1].value.tag) = 7
  /\ tag_wire_type(fields[1].value.tag) = b[1] % 8

\* C2: a file that is one field of an undeclared number, or one m3 holding
\* one such field, decodes to an UNKNOWN occurrence with that number and
\* wire kind (inside m3 for the nested one), and write emits the file again,
\* for a varint and for a length-delimited field of every length from zero
UnknownKept ==
  /\ (wpc # "start" /\ IsUnknownField(input)) =>
        /\ dec.res = "ok"
        /\ UnknownAt(dec.value.fields, input)
        /\ wpc = "written" => output = input
  /\ (/\ wpc # "start" /\ Len(input) >= 2 /\ input[1] = 26
      /\ input[2] = Len(input) - 2
      /\ IsUnknownField(SubSeq(input, 3, Len(input)))) =>
        /\ dec.res = "ok"
        /\ Len(dec.value.fields) = 1
        /\ dec.value.fields[1].value.kind = "MESSAGE"
        /\ UnknownAt(dec.value.fields[1].value.fields, SubSeq(input, 3, Len(input)))
        /\ wpc = "written" => output = input

\* --------------------------------------------- reading a document's paths
\* the positions of the fields numbered id
IdPositions(fields, id) == {i \in 1 .. Len(fields) : FieldData_id(fields[i]) = id}

\* the position of occurrence n of id, 0 when there are n or fewer
Occurrence(fields, id, n) ==
  LET S == {i \in IdPositions(fields, id) :
              Cardinality({j \in IdPositions(fields, id) : j < i}) = n}
  IN IF S = {} THEN 0 ELSE CHOOSE i \in S : TRUE

\* the message a path of message occurrences leads to, None when a step has
\* no such occurrence or its occurrence is not a message
RECURSIVE Sub(_, _)
Sub(msg, path) ==
  IF path = <<>> THEN msg
  ELSE LET p == Occurrence(msg.fields, Head(path).id, Head(path).index) IN
       IF p = 0 THEN None
       ELSE IF msg.fields[p].value.kind # "MESSAGE" THEN None
       ELSE Sub(msg.fields[p].value, Tail(path))

\* a and b differ at most inside the message `path` leads to in a
RECURSIVE SameOutside(_, _, _)
SameOutside(a, b, path) ==
  IF path = <<>> THEN a.def = b.def
  ELSE LET p == Occurrence(a.fields, Head(path).id, Head(path).index) IN
       /\ a.def = b.def
       /\ Len(a.fields) = Len(b.fields)
       /\ \A j \in 1 .. Len(a.fields) : j # p => a.fields[j] = b.fields[j]
       /\ b.fields[p].def = a.fields[p].def
       /\ b.fields[p].pos = a.fields[p].pos
       /\ b.fields[p].value.kind = "MESSAGE"
       /\ SameOutside(a.fields[p].value, b.fields[p].value, Tail(path))

Parent(msg, path) == Sub(msg, SubSeq(path, 1, Len(path) - 1))
Last(path) == path[Len(path)]
FirstApply(type) == call.op = "apply" /\ call.change.action.type = type

\* ------------------------------------------------------------------ C3
\* C3: when apply of Insert(p, v) succeeded, the second apply of the same
\* change object succeeds and the document serializes as before the insert
InsertUndone ==
  (FirstApply("Insert") /\ results[1].ok /\ Len(results) >= 2) =>
     /\ results[2].ok
     /\ MessageData_write(results[2].doc) = MessageData_write(call.before)

\* ------------------------------------------------------------------ C4
\* C4: when apply of Delete(p) succeeded, the second apply of the same
\* change object succeeds and the document serializes as before the delete
DeleteUndone ==
  (FirstApply("Delete") /\ results[1].ok /\ Len(results) >= 2) =>
     /\ results[2].ok
     /\ MessageData_write(results[2].doc) = MessageData_write(call.before)

\* ------------------------------------------------------------------ C5
\* C5: a successful apply of Overwrite(p, v) acted on an existing
\* occurrence, which holds v afterwards while every other field is as
\* before, and the change object is Overwrite(p, previous value); the second
\* apply gives back the previous document and the original change, the
\* third the document and the change after the first
OverwriteInverse ==
  (FirstApply("Overwrite") /\ results[1].ok) =>
     LET m0 == Parent(call.before, call.path)
         m1 == Parent(results[1].doc, call.path)
         k == Occurrence(m0.fields, Last(call.path).id, Last(call.path).index)
     IN /\ m0 # None
        /\ k # 0
        /\ SameOutside(call.before, results[1].doc, SubSeq(call.path, 1, Len(call.path) - 1))
        /\ m1.def = m0.def
        /\ Len(m1.fields) = Len(m0.fields)
        /\ \A j \in 1 .. Len(m0.fields) : j # k => m1.fields[j] = m0.fields[j]
        /\ m1.fields[k] = [m0.fields[k] EXCEPT !.value = call.change.action.value]
        /\ results[1].change = Overwrite(call.path, m0.fields[k].value)
        /\ Len(results) >= 2 =>
             /\ results[2].ok
             /\ results[2].doc = call.before
             /\ results[2].change = call.change
        /\ Len(results) >= 3 =>
             /\ results[3].ok
             /\ results[3].doc = results[1].doc
             /\ results[3].change = results[1].change

\* an Overwrite of a field that has a sibling, with a value it did not hold,
\* applied three times
OverwriteInverseWitness ==
  /\ FirstApply("Overwrite")
  /\ Len(results) = 3
  /\ results[1].ok
  /\ Len(Parent(call.before, call.path).fields) >= 2
  /\ results[1].change.action.value # call.change.action.value

\* ------------------------------------------------------------------ C6
ParentPath(path) == SubSeq(path, 1, Len(path) - 1)
Count(fields, id) == Cardinality(IdPositions(fields, id))

\* the call is an add (add_field, or the add_field inside the first apply of
\* an Insert) whose parent path leads to a message
IsAdd ==
  /\ call.op = "add_field" \/ FirstApply("Insert")
  /\ Parent(call.before, call.path) # None

\* C6: add with last step (id, n) on a message declaring id succeeds; with
\* n below the number of occurrences of id the new field sits where
\* occurrence n was and is occurrence n, the former occurrences n, n+1, ...
\* being n+1, n+2, ...; otherwise it is the last field of the message; it
\* holds the default (the inserted value for an Insert); all fields that were
\* there keep their values and order, in this message and outside it. And the
\* values inserted at successive indices 0 .. k-1 are what get(id, i) returns
AddPosition ==
  /\ (IsAdd /\ proto_get_field(Parent(call.before, call.path).def, Last(call.path).id) # None) =>
       LET m0 == Parent(call.before, call.path)
           m1 == Parent(results[1].doc, call.path)
           id == Last(call.path).id
           n == Last(call.path).index
           k == IF n < Count(m0.fields, id) THEN Occurrence(m0.fields, id, n)
                ELSE Len(m0.fields) + 1
       IN /\ results[1].ok
          /\ SameOutside(call.before, results[1].doc, ParentPath(call.path))
          /\ m1.def = m0.def
          /\ Len(m1.fields) = Len(m0.fields) + 1
          /\ \A j \in 1 .. Len(m0.fields) :
               m1.fields[IF j < k THEN j ELSE j + 1] = m0.fields[j]
          /\ m1.fields[k].def = proto_get_field(m0.def, id)
          /\ m1.fields[k].value = IF call.op = "add_field" THEN field_default(m1.fields[k].def)
                                  ELSE call.change.action.value
          /\ call.op = "add_field" => results[1].ret = m1.fields[k]
          /\ n < Count(m0.fields, id) =>
               /\ Occurrence(m1.fields, id, n) = k
               /\ \A i \in n .. Count(m0.fields, id) - 1 :
                    Occurrence(m1.fields, id, i + 1) = Occurrence(m0.fields, id, i) + 1
  /\ \A i \in 1 .. Len(run.vals) :
       LET f == get_field(doc, Append(run.parent, Step(run.id, i - 1))) IN
       /\ f # None
       /\ f.value = run.vals[i]

\* two values inserted at indices 0 and 1 in front of an occurrence that was
\* there before
AddPositionWitness ==
  /\ FirstApply("Insert")
  /\ Len(results) = 1
  /\ results[1].ok
  /\ Last(call.path).index = 1
  /\ Len(run.vals) = 2
  /\ run.vals[1] # run.vals[2]
  /\ Count(Parent(call.before, call.path).fields, Last(call.path).id) = 2

\* ------------------------------------------------------------------ C7
\* the call is a delete (delete_field, or the delete_field inside the first
\* apply of a Delete) that succeeded
IsDelete ==
  /\ call.op = "delete_field" \/ FirstApply("Delete")
  /\ results[1].ok

\* C7: a successful delete with last step (id, n) acted on a message that
\* has an occurrence n of id, removed the field at its position and returned
\* its value (in the rewritten change for apply); the fields before and after
\* it keep their values and order, occurrences n+1, n+2, ... of id are
\* occurrences n, n+1, ..., and nothing outside the message changes
DeleteOccurrence ==
  IsDelete =>
    LET m0 == Parent(call.before, call.path)
        m1 == Parent(results[1].doc, call.path)
        id == Last(call.path).id
        n == Last(call.path).index
        k == Occurrence(m0.fields, id, n)
    IN /\ m0 # None
       /\ k # 0
       /\ SameOutside(call.before, results[1].doc, ParentPath(call.path))
       /\ m1.def = m0.def
       /\ Len(m1.fields) = Len(m0.fields) - 1
       /\ \A j \in 1 .. Len(m1.fields) :
            m1.fields[j] = m0.fields[IF j < k THEN j ELSE j + 1]
       /\ IF call.op = "delete_field" THEN results[1].ret = m0.fields[k].value
          ELSE results[1].change = Insert(call.path, m0.fields[k].value)
       /\ \A i \in 0 .. Count(m0.fields, id) - 1 :
            Occurrence(m1.fields, id, i) =
              IF i < n THEN Occurrence(m0.fields, id, i)
              ELSE IF i + 1 < Count(m0.fields, id) THEN Occurrence(m0.fields, id, i + 1) - 1
              ELSE 0

\* the middle one of three occurrences was deleted
DeleteOccurrenceWitness ==
  /\ call.op = "delete_field"
  /\ results[1].ok
  /\ Last(call.path).index = 1
  /\ Count(Parent(call.before, call.path).fields, Last(call.path).id) = 3

\* ------------------------------------------------------------------ C8
\* the document and the change object the i-th call of the operation found,
\* and the kind of request it made
DocBefore(i) == IF i = 1 THEN call.before ELSE results[i - 1].doc
ChangeBefore(i) == IF i = 1 THEN call.change ELSE results[i - 1].change
OpOf(i) == IF call.op = "apply" THEN ChangeBefore(i).action.type ELSE call.op
NeedsOccurrence(op) == op \in {"get_field", "delete_field", "Overwrite", "Delete"}

Absent(i) ==
  /\ ~results[i].ok
  /\ call.op # "apply" => results[i].ret = None
Untouched(i) ==
  /\ results[i].doc = DocBefore(i)
  /\ results[i].change = ChangeBefore(i)
  /\ i = Len(results) => doc = results[i].doc

\* the request is unresolvable: a step names a number its message does not
\* declare, a step before the last (or the last one of a request for an
\* existing field) has no such occurrence, or a step before the last leads
\* to a field that is not a message
RECURSIVE Unresolvable(_, _, _)
Unresolvable(msg, path, op) ==
  LET st == Head(path)
      p == Occurrence(msg.fields, st.id, st.index)
  IN \/ proto_get_field(msg.def, st.id) = None
     \/ IF Len(path) = 1 THEN NeedsOccurrence(op) /\ p = 0
        ELSE \/ p = 0
             \/ msg.fields[p].value.kind # "MESSAGE"
             \/ Unresolvable(msg.fields[p].value, Tail(path), op)

\* C8 as stated: every unresolvable request yields an absent result and
\* leaves the document and the change object as they were
AbsentOnUnresolvable ==
  \A i \in 1 .. Len(results) :
    Unresolvable(DocBefore(i), call.path, OpOf(i)) => Absent(i) /\ Untouched(i)

\* the request has no target: the last step of an add or Insert names a
\* number its message does not declare, the last step of another request or
\* a step before the last has no such occurrence (an unknown field is an
\* occurrence of its number), or a step before the last leads to a field
\* that is not a message
RECURSIVE NoTarget(_, _, _)
NoTarget(msg, path, op) ==
  LET st == Head(path)
      p == Occurrence(msg.fields, st.id, st.index)
  IN IF Len(path) = 1
     THEN IF NeedsOccurrence(op) THEN p = 0 ELSE proto_get_field(msg.def, st.id) = None
     ELSE \/ p = 0
          \/ msg.fields[p].value.kind # "MESSAGE"
          \/ NoTarget(msg.fields[p].value, Tail(path), op)

\* C8 as amended: every request without a target yields an absent result,
\* and every absent result leaves the document and the change object as they
\* were
AbsentOnNoTarget ==
  \A i \in 1 .. Len(results) :
    /\ NoTarget(DocBefore(i), call.path, OpOf(i)) => Absent(i)
    /\ ~results[i].ok => Absent(i) /\ Untouched(i)

\* an Overwrite whose path steps through an existing int32 field, applied
\* twice
AbsentOnNoTargetWitness ==
  /\ FirstApply("Overwrite")
  /\ Len(results) = 2
  /\ ~results[1].ok
  /\ Len(call.path) = 2
  /\ Occurrence(call.before.fields, call.path[1].id, call.path[1].index) # 0

\* ------------------------------------------------- the sint32/sint64 codecs
\* wrapping negation of a w-bit two's complement value: invert, add one
Neg(S, w) ==
  LET inv == Bits(w) \ S IN
  IF inv = Bits(w) THEN {}
  ELSE LET k == CHOOSE b \in Bits(w) \ inv : \A c \in Bits(w) \ inv : b <= c
       IN {b \in inv : b > k} \cup {k}

\* the zigzag the write of SInt32FieldProto / SInt64FieldProto computes from
\* a w-bit value: value << 1, or 1 + ((-value) << 1) for a negative one
\* (the shift drops the top bit, the sum of 1 and an even number never
\* carries)
sint_zigzag(value, w) ==
  IF (w - 1) \notin value THEN Shl(value, 1) \cap Bits(w)
  ELSE (Shl(Neg(value, w), 1) \cap Bits(w)) \cup {0}

\* SInt32FieldProto::write / SInt64FieldProto::write: zigzag as u32 (u64)
\* as i128
sint_write(value, w) == write_varint(sint_zigzag(value, w))

\* SInt32FieldProto::read: -((zigzag >> 1) & 0x7fffffff) or
\* (zigzag >> 1) & 0x7fffffff, as i32
sint32_value(zigzag) ==
  LET half == Shr(zigzag, 1) \cap Bits(31) IN
  IF 0 \in zigzag THEN Neg(half, 32) ELSE half

\* SInt64FieldProto::read: -(zigzag >> 1) or zigzag >> 1, as i64
sint64_value(zigzag) ==
  LET half == Shr(zigzag, 1) IN
  IF 0 \in zigzag THEN Neg(half, 128) \cap Bits(64) ELSE half \cap Bits(64)

sint_read(bld, rd, limit, w) ==
  LET r == read_varint(bld, rd, limit) IN
  IF r.res # "ok" THEN r
  ELSE RdOk(IF w = 32 THEN sint32_value(r.value) ELSE sint64_value(r.value), r.rd, r.limit)

\* values from SInt32FieldProto::MIN to MAX (SInt64FieldProto::MIN to MAX):
\* 0, every value with one or two set bits, MAX, and their negations
SintSamples(w) ==
  LET pos == {{}} \cup {{a, b} : a, b \in Bits(w - 1)} \cup {Bits(w - 1)}
  IN pos \cup {Neg(v, w) : v \in pos}

ZigzagInit ==
  /\ build \in {"debug", "release"}
  /\ WireIdle
  /\ DocIdle
  /\ SortIdle
  /\ SaveIdle
  /\ IndentIdle
  /\ ViewIdle
  /\ vpc = "start"
  /\ vres = NoRead
  /\ vsrc = <<>>
  /\ vlimit = 0
  /\ \/ vmode = "sint32" /\ vval \in SintSamples(32)
     \/ vmode = "sint64" /\ vval \in SintSamples(64)

SintWidth == IF vmode = "sint32" THEN 32 ELSE 64

WriteSint ==
  /\ vmode \in {"sint32", "sint64"} /\ vpc = "start"
  /\ vsrc' = sint_write(vval, SintWidth)
  /\ vlimit' = Len(vsrc')
  /\ vpc' = "written"
  /\ UNCHANGED <<build, sortVars, saveVars, indentVars, viewVars, vmode, vval, vres, wireVars, docVars>>

ReadSint ==
  /\ vmode \in {"sint32", "sint64"} /\ vpc = "written"
  /\ vres' = sint_read(build, [src |-> vsrc, pos |-> 0], vlimit, SintWidth)
  /\ vpc' = "read"
  /\ UNCHANGED <<build, sortVars, saveVars, indentVars, viewVars, vmode, vval, vsrc, vlimit, wireVars, docVars>>

ZigzagNext == WriteSint \/ ReadSint

SpecZigzag == ZigzagInit /\ [][ZigzagNext]_vars

\* ----------------------------------------------------------------- C11
\* 2n for n >= 0 and -2n-1 for n < 0, as a non-negative number of w bits:
\* n << 1, inverted bit by bit when n is negative
Zigzag(n, w) ==
  IF (w - 1) \notin n THEN Shl(n, 1) \cap Bits(w)
  ELSE Bits(w) \ (Shl(n, 1) \cap Bits(w))

\* C11: the sint32 and sint64 write emits the varint of 2n for n >= 0 and of
\* -2n-1 for n < 0, and read gives n back from these bytes, using them all
ZigzagRoundTrip ==
  /\ (vmode \in {"sint32", "sint64"} /\ vpc # "start") =>
        vsrc = write_varint(Zigzag(vval, SintWidth))
  /\ (vmode \in {"sint32", "sint64"} /\ vpc = "read") =>
        /\ vres.res = "ok"
        /\ vres.value = vval
        /\ vres.limit = 0

\* ----------------------------------------------------------------- C12
\* at position i of b stands the tag of a length-delimited field (m3, s4 or
\* the undeclared 7) whose length byte declares more bytes than b has left
TruncatedAt(b, i) ==
  /\ i + 1 <= Len(b)
  /\ b[i] \in {26, 34, 58}
  /\ b[i + 1] < 128
  /\ b[i + 1] > Len(b) - (i + 1)

\* C12: decoding returns an error, and so no document, when a string,
\* unknown or nested-message field declares a length greater than the bytes
\* left in the budget: as the first field of the file, after a first varint
\* field f1, or (for the unknown field) inside an m3 that spans the rest of
\* the file
TruncatedRejected ==
  (/\ wpc # "start"
   /\ \/ TruncatedAt(input, 1)
      \/ /\ Len(input) >= 2 /\ input[1] = 8 /\ input[2] < 128
         /\ TruncatedAt(input, 3)
      \/ /\ Len(input) >= 2 /\ input[1] = 26 /\ input[2] = Len(input) - 2
         /\ Len(input) >= 4 /\ input[3] = 58 /\ TruncatedAt(input, 3))
  => dec.res = "err"

\* ----------------------------------------------------------------- C13
\* a tag of wire kind 3 or 4: 0B and 0C (number 1, declared by M and M3),
\* 3B and 3C (number 7, declared by neither)
GroupTags == {11, 12, 59, 60}

\* a group tag stands where the decoder reads a tag: at the start of the
\* file, after a first varint field f1, or at the start of an m3 whose
\* declared length lies within the file
GroupTagRead ==
  /\ Len(input) >= 1
  /\ \/ input[1] \in GroupTags
     \/ /\ Len(input) >= 3 /\ input[1] = 8 /\ input[2] < 128
        /\ input[3] \in GroupTags
     \/ /\ Len(input) >= 3 /\ input[1] = 26
        /\ input[2] >= 1 /\ input[2] <= Len(input) - 2
        /\ input[3] \in GroupTags

\* C13: when the decoder reads a tag of wire kind 3 or 4, of a declared or
\* an undeclared number, in the root message or in a nested one, decoding
\* ends with the unsupported-feature error and no document
GroupsRejected ==
  (wpc # "start" /\ GroupTagRead) =>
     /\ dec.res = "err"
     /\ dec.value = "Unsupported"

\* an end-group tag of an undeclared number at the start of a nested m3
GroupsRejectedWitness ==
  /\ wpc = "decoded"
  /\ Len(input) = 4
  /\ input[1] = 26 /\ input[2] = 2 /\ input[3] = 60
  /\ dec.res = "err"

\* ------------------------------------------------- the field-order run
MaxSortLen == 4

\* enum FieldOrder
FieldOrder == {"Proto", "Wire", "ByName", "ById"}

FieldPos(id, index) == [id |-> id, index |-> index]

\* the UTF-8 bytes of the field names of the schema, which str::cmp compares
str_bytes ==
  [name \in {"f1", "f2", "m3", "s4", "g1", "b2", "a3", "c1", "d4", "f4", "f5", "m6", "f7",
             "f8", "f9", "s1", "i3", "a1", "wide5", "mj", "b1", "deeper"} |->
     CASE name = "f1" -> <<102, 49>> [] name = "f2" -> <<102, 50>>
       [] name = "m3" -> <<109, 51>> [] name = "s4" -> <<115, 52>>
       [] name = "g1" -> <<103, 49>> [] name = "b2" -> <<98, 50>>
       [] name = "a3" -> <<97, 51>>  [] name = "c1" -> <<99, 49>>
       [] name = "d4" -> <<100, 52>> [] name = "f4" -> <<102, 52>>
       [] name = "f5" -> <<102, 53>> [] name = "m6" -> <<109, 54>>
       [] name = "f7" -> <<102, 55>> [] name = "f8" -> <<102, 56>>
       [] name = "f9" -> <<102, 57>> [] name = "s1" -> <<115, 49>>
       [] name = "i3" -> <<105, 51>> [] name = "a1" -> <<97, 49>>
       [] name = "wide5" -> <<119, 105, 100, 101, 53>> [] name = "mj" -> <<109, 106>>
       [] name = "b1" -> <<98, 49>>
       [] name = "deeper" -> <<100, 101, 101, 112, 101, 114>>]

\* a.cmp(b) # Greater for byte strings: lexicographic, a prefix comes first
RECURSIVE str_le(_, _)
str_le(a, b) ==
  IF a = <<>> THEN TRUE
  ELSE IF b = <<>> THEN FALSE
  ELSE IF Head(a) # Head(b) THEN Head(a) < Head(b)
  ELSE str_le(Tail(a), Tail(b))

\* the comparator handed to sort_by: def1 is not Greater than def2
def_le(order, def1, def2) ==
  IF order = "ByName" THEN str_le(str_bytes[def1.name], str_bytes[def2.name])
  ELSE def1.id <= def2.id

\* Vec::sort_by, a stable sort: each definition goes before the first
\* definition already placed that is Greater than it
RECURSIVE sort_by(_, _)
sort_by(fdefs, order) ==
  IF Len(fdefs) <= 1 THEN fdefs
  ELSE LET last == fdefs[Len(fdefs)]
           front == sort_by(SubSeq(fdefs, 1, Len(fdefs) - 1), order)
           k == Cardinality({i \in 1 .. Len(front) : def_le(order, front[i], last)})
       IN SubSeq(front, 1, k) \o <<last>> \o SubSeq(front, k + 1, Len(front))

\* the first pass of the Wire branch: each field's FieldPos, its index
\* counted per id as the fields are met
fields_positions(fields) ==
  [i \in 1 .. Len(fields) |->
     FieldPos(FieldData_id(fields[i]),
              Cardinality({j \in 1 .. (i - 1) :
                             FieldData_id(fields[j]) = FieldData_id(fields[i])}))]

\* the first element of a run is remembered only at the last element of
\* the run, so every entry carries the position of its run's last field
RECURSIVE union_sequences_last(_, _, _, _, _)
union_sequences_last(ps, i, current, amount, res) ==
  IF i > Len(ps) THEN res
  ELSE LET value == ps[i]
           next_the_same == i < Len(ps) /\ ps[i + 1].id = value.id
       IN IF next_the_same
          THEN union_sequences_last(ps, i + 1, value, amount + 1, res)
          ELSE union_sequences_last(ps, i + 1, value, 0,
                 Append(res, [pos |-> value, amount |-> amount + 1]))

\* the second pass of the Wire branch ("union field sequences with equal
\* id"): the loop over the peekable iterator
RECURSIVE union_sequences(_, _, _, _, _)
union_sequences(ps, i, current, amount, res) ==
  IF i > Len(ps) THEN res
  ELSE LET value == ps[i]
           cur == IF amount = 0 THEN value ELSE current
           next_the_same == i < Len(ps) /\ ps[i + 1].id = value.id
       IN IF next_the_same
          THEN union_sequences(ps, i + 1, cur, amount + 1, res)
          ELSE union_sequences(ps, i + 1, cur, 0,
                 Append(res, [pos |-> cur, amount |-> amount + 1]))

\* MessageData::get_sorted_fields
get_sorted_fields(msg, order) ==
  IF order = "Wire"
  THEN union_sequences(fields_positions(msg.fields), 1, FieldPos(0, 0), 0, <<>>)
  ELSE LET fdefs == IF order # "Proto" THEN sort_by(Schema[msg.def], order)
                    ELSE Schema[msg.def]
       IN [k \in 1 .. Len(fdefs) |->
             [pos |-> FieldPos(fdefs[k].id, 0),
              amount |-> Cardinality({i \in 1 .. Len(msg.fields) :
                                        FieldData_id(msg.fields[i]) = fdefs[k].id})]]

\* the stored fields of the sort_fields test data: varint fields of
\* message M1, numbers 1 to 4 declared, 7 undeclared, each with a value
SortIds == {1, 2, 3, 4, 7}

RECURSIVE SortBytes(_)
SortBytes(ids) ==
  IF ids = <<>> THEN <<>> ELSE <<Head(ids) * 8, 8 + Len(ids)>> \o SortBytes(Tail(ids))

SortInputs == {SortBytes(ids) : ids \in UNION {[1 .. n -> SortIds] : n \in 0 .. MaxSortLen}}

NotAsked == [o \in FieldOrder |-> [asked |-> FALSE, list |-> <<>>]]

SortInit ==
  /\ build \in {"debug", "release"}
  /\ IndentIdle
  /\ SaveIdle
  /\ VarintIdle
  /\ WireIdle
  /\ DocIdle
  /\ ViewIdle
  /\ \E b \in SortInputs : sdata = MessageData_new(build, b, "M1", Len(b)).value
  /\ sres = NotAsked

GetSortedFields(order) ==
  /\ sdata # None /\ ~sres[order].asked
  /\ sres' = [sres EXCEPT ![order] =
                [asked |-> TRUE, list |-> get_sorted_fields(sdata, order)]]
  /\ UNCHANGED <<build, varintVars, wireVars, docVars, indentVars, saveVars, viewVars, sdata>>

SortNext == \E order \in FieldOrder : GetSortedFields(order)

SpecSort == SortInit /\ [][SortNext]_vars

\* ----------------------------------------------------------------- C14
StoredIds == [i \in 1 .. Len(sdata.fields) |-> FieldData_id(sdata.fields[i])]

\* the places where a maximal run of one number starts, and where it ends
RunStarts == {i \in 1 .. Len(StoredIds) : i = 1 \/ StoredIds[i - 1] # StoredIds[i]}

RunEnd(s) ==
  CHOOSE e \in s .. Len(StoredIds) :
    /\ \A j \in s .. e : StoredIds[j] = StoredIds[s]
    /\ e = Len(StoredIds) \/ StoredIds[e + 1] # StoredIds[s]

Occurrences(id) == Cardinality({i \in 1 .. Len(StoredIds) : StoredIds[i] = id})

RECURSIVE SumAmounts(_)
SumAmounts(res) == IF res = <<>> THEN 0 ELSE Head(res).amount + SumAmounts(Tail(res))

WireEntries(res) ==
  /\ Len(res) = Cardinality(RunStarts)
  /\ \A s \in RunStarts :
       LET k == Cardinality({t \in RunStarts : t <= s}) IN
         /\ res[k].pos.id = StoredIds[s]
         /\ res[k].pos.index =
              Cardinality({j \in 1 .. (s - 1) : StoredIds[j] = StoredIds[s]})
         /\ res[k].amount = RunEnd(s) - s + 1
  /\ SumAmounts(res) = Len(StoredIds)

DeclaredEntries(res, order) ==
  LET fdefs == Schema[sdata.def] IN
    /\ Len(res) = Len(fdefs)
    /\ \A d \in 1 .. Len(fdefs) : \E k \in 1 .. Len(res) : res[k].pos.id = fdefs[d].id
    /\ \A k \in 1 .. Len(res) :
         /\ res[k].pos.index = 0
         /\ res[k].amount = Occurrences(res[k].pos.id)
    /\ order = "Proto" => \A k \in 1 .. Len(res) : res[k].pos.id = fdefs[k].id
    /\ order = "ById" => \A k \in 1 .. (Len(res) - 1) : res[k].pos.id < res[k + 1].pos.id
    /\ order = "ByName" =>
         \A k \in 1 .. (Len(res) - 1) :
           LET name(id) == (CHOOSE d \in 1 .. Len(fdefs) : fdefs[d].id = id)
               a == str_bytes[fdefs[name(res[k].pos.id)].name]
               b == str_bytes[fdefs[name(res[k + 1].pos.id)].name]
           IN a # b /\ str_le(a, b)

\* C14: in Wire order get_sorted_fields gives one entry per maximal run of
\* equal field numbers, in storage order, placed at the occurrence index of
\* the run's first field, with counts that sum to the number of stored
\* fields; in Proto, ById and ByName order it gives one entry per declared
\* field, in that order, with index 0 and the field's occurrence count
SortedFieldsEntries ==
  sdata # None =>
    \A order \in FieldOrder :
      sres[order].asked =>
        IF order = "Wire" THEN WireEntries(sres[order].list)
        ELSE DeclaredEntries(sres[order].list, order)

\* the data of the sort_fields test without its first field (numbers 3 3 1
\* 3), listed in all four orders
SortedFieldsWitness ==
  /\ sdata # None
  /\ StoredIds = <<3, 3, 1, 3>>
  /\ \A order \in FieldOrder : sres[order].asked
  /\ sres["Wire"].list = << [pos |-> FieldPos(3, 0), amount |-> 2],
                       [pos |-> FieldPos(1, 0), amount |-> 1],
                       [pos |-> FieldPos(3, 2), amount |-> 1] >>
  /\ sres["ByName"].list[4] = [pos |-> FieldPos(4, 0), amount |-> 0]

\* -------------------------------------------------- the layout entries
\* LayoutParams::new / new_empty: `layout` is "None" for an entry that has
\* not been loaded, else the LayoutType of its boxed layout; `edit` is the
\* editor of a StringLayout or BytesLayout, None in view mode
LayoutParams(path, amount, layout) ==
  [height |-> 1, path |-> path, amount |-> amount, layout |-> layout, children_count |-> 0,
   edit |-> None]

level(item) == Len(item.path)

with_last_index(path, index) == [path EXCEPT ![Len(path)].index = index]

MARGIN_LEFT == 1
MARGIN_RIGHT == 1
NEXT_LEVEL_INDENT == 2

\* format!("{}", value).len() of an i32: its decimal digits and the sign
RECURSIVE decimal_len(_)
decimal_len(n) ==
  IF n < 0 THEN 1 + decimal_len(-n) ELSE IF n < 10 THEN 1 ELSE 1 + decimal_len(n \div 10)

\* IndentsCalc::add for an entry of the given level.  Every field name of
\* the messages M, M1, MM and ME, which the view, scroll, edit and navigation
\* runs show, has two characters and the top-level entries are sized first, so
\* level_indents is MARGIN_LEFT + 2 at the first level and grows by
\* NEXT_LEVEL_INDENT per level
indent_of(lvl) == MARGIN_LEFT + 2 + NEXT_LEVEL_INDENT * (lvl - 1)

\* ScalarLayout::get_line_lens, the loop over the occurrences from index
\* to end: the values per screen line
RECURSIVE get_line_lens_loop(_, _, _, _, _, _, _, _, _)
get_line_lens_loop(msg, id, index, end, cur_len, avail_width, full_avail, prv_line_end, starts) ==
  IF index >= end
  THEN IF end - prv_line_end > 0 THEN Append(starts, end - prv_line_end) ELSE starts
  ELSE With(get_field(msg, <<[id |-> id, index |-> index]>>), LAMBDA field :
       IF field # None /\ field.value.kind = "I32"
       THEN With(decimal_len(I32Int(field.value.bits)), LAMBDA len :
            IF cur_len + len + 1 >= avail_width
            THEN get_line_lens_loop(msg, id, index + 1, end, len + 1, full_avail, full_avail,
                                    index, Append(starts, index - prv_line_end))
            ELSE get_line_lens_loop(msg, id, index + 1, end, cur_len + len + 1, avail_width,
                                    full_avail, prv_line_end, starts))
       ELSE get_line_lens_loop(msg, id, index + 1, end, cur_len, avail_width, full_avail,
                               prv_line_end, starts))

\* ScalarLayout::get_line_lens (the type name of every scalar field of
\* Schema shown by a ScalarLayout is "int32")
get_line_lens(full_width, indent, def, msg, path, amount) ==
  With(full_width - indent - (MARGIN_LEFT + MARGIN_RIGHT), LAMBDA full_avail :
    With(path[Len(path)], LAMBDA last_pos :
      get_line_lens_loop(msg, last_pos.id, last_pos.index, last_pos.index + amount, 0,
                         full_avail - (IF def.repeated THEN 1 ELSE 0) - 5, full_avail, 0, <<>>)))

\* ScalarLayout::calc_sizes: the screen lines of the entry
scalar_calc_sizes(root, path, amount, width) ==
  With(get_submessage(root, SubSeq(path, 1, Len(path) - 1)), LAMBDA msg :
    IF amount > 0 /\ msg # None
    THEN With(Len(get_line_lens(width, indent_of(Len(path)), get_field_definition(root, path),
                                msg, path, amount)),
              LAMBDA lines : IF lines > 1 THEN lines ELSE 1)
    ELSE 1)

\* BytesLayout::calc_sizes_internal: (height, bytes_on_line) of a bytes
\* field of data_size bytes
calc_sizes_internal(width, indent, repeated, empty_field, data_size) ==
  With(width - (indent + 1) - 5 - (IF empty_field THEN 1 ELSE 0) - (IF repeated THEN 1 ELSE 0),
       LAMBDA first_width :
    With(IF first_width \div 25 > 0 THEN first_width - (first_width \div 25 - 1) ELSE first_width,
         LAMBDA free_width :
      With(IF first_width \div 25 > 0 THEN free_width \div 25 ELSE 0, LAMBDA blocks_count :
        With(IF blocks_count = 0 THEN (free_width - 1) \div 3
             ELSE IF data_size > blocks_count * 8
                     /\ blocks_count * 25 + 1 + (data_size - blocks_count * 8) * 3 <= free_width
                  THEN data_size
                  ELSE blocks_count * 8,
             LAMBDA on_line :
          With(IF on_line > 1 THEN on_line ELSE 1, LAMBDA bytes_on_line :
            [height |-> IF data_size = 0 THEN 1
                        ELSE (data_size + bytes_on_line - 1) \div bytes_on_line,
             bytes_on_line |-> bytes_on_line])))))

\* BytesLayout::calc_sizes: data_size, bytes_per_line and the height (every
\* field name of Schema is longer than the address of the last byte)
bytes_calc_sizes(root, path, amount, width) ==
  With(get_field(root, path), LAMBDA field :
    With(get_field_definition(root, path), LAMBDA def :
      With(IF field # None /\ field.value.kind = "BYTES" THEN Len(field.value.bytes) ELSE 0,
           LAMBDA data_size :
        [data_size |-> data_size] @@
        calc_sizes_internal(width, indent_of(Len(path)),
                            IF field # None /\ field.value.kind = "BYTES"
                            THEN field.def.repeated
                            ELSE def # None /\ def.repeated,
                            amount = 0, data_size))))

\* LayoutParams::calc_sizes at the width of the window (self.width).  A
\* message or collapsed entry reports one line, and so does a string
\* entry: the texts here have no line break and fit the first line.
calc_sizes(item, root) ==
  IF item.layout = "None" THEN item
  ELSE [item EXCEPT !.height = IF item.layout = "Scalar"
                               THEN scalar_calc_sizes(root, item.path, item.amount, app_width)
                               ELSE IF item.layout = "Bytes"
                               THEN bytes_calc_sizes(root, item.path, item.amount, app_width).height
                               ELSE 1]

\* calc_sizes of every entry of a list
sized(items, root) == [i \in 1 .. Len(items) |-> calc_sizes(items[i], root)]

RECURSIVE flatten(_)
flatten(lists) == IF lists = <<>> THEN <<>> ELSE Head(lists) \o flatten(Tail(lists))

\* Layouts::calc_top_layouts_count
calc_top_layouts_count(items) ==
  Cardinality({i \in 1 .. Len(items) : level(items[i]) = level(items[1])})

\* Layouts::create_scalar_layouts
create_scalar_layouts(field_def, path, amount) ==
  IF field_def.type \in {"bytes", "string"}
  THEN LET start == path[Len(path)].index
           n == IF amount > 1 THEN amount ELSE 1
       IN [k \in 1 .. n |->
             LayoutParams(with_last_index(path, start + k - 1),
                          IF amount < 1 THEN amount ELSE 1,
                          IF field_def.type = "bytes" THEN "Bytes" ELSE "Str")]
  ELSE <<LayoutParams(path, amount, "Scalar")>>

\* Layouts::create_field_layouts and Layouts::create_message_layouts
RECURSIVE create_field_layouts(_, _, _, _, _)
RECURSIVE create_message_layouts(_, _, _, _, _)
create_field_layouts(root, order, path, amount, load_all) ==
  With(get_field(root, path), LAMBDA field :
    With(IF field # None THEN field.def ELSE get_field_definition(root, path),
         LAMBDA field_def :
      IF (field # None /\ field.value.kind = "MESSAGE") \/ (field = None /\ is_message(field_def))
      THEN LET each == field # None /\ amount # 0     \* one entry per occurrence
               last_pos == path[Len(path)]
           IN flatten([k \in 1 .. (IF each THEN amount ELSE 1) |->
                create_message_layouts(root, order,
                  IF each THEN with_last_index(path, last_pos.index + k - 1) ELSE path,
                  IF each THEN 1 ELSE amount, load_all)])
      ELSE create_scalar_layouts(field_def, path, amount)))

create_message_layouts(root, order, path, amount, load_all) ==
  IF load_all
  THEN IF amount > 0
       THEN With(get_sorted_fields(get_submessage(root, path), order), LAMBDA sorted_fields :
              With(flatten([k \in 1 .. Len(sorted_fields) |->
                     create_field_layouts(root, order, Append(path, sorted_fields[k].pos),
                                          sorted_fields[k].amount, load_all)]),
                   LAMBDA descendants :
                <<[LayoutParams(path, amount, "Message") EXCEPT
                     !.children_count = calc_top_layouts_count(descendants)]>>
                  \o descendants))
       ELSE <<LayoutParams(path, amount, "Message")>>
  ELSE <<LayoutParams(path, amount, "None")>>

\* the entries of the whole root message, as Layouts::new (load_all false)
\* and the root branch of update_after_data_changed (load_all true) build
\* them, sized
root_layouts(root, order, load_all) ==
  With(get_sorted_fields(root, order), LAMBDA sorted_fields :
    sized(flatten([k \in 1 .. Len(sorted_fields) |->
            create_field_layouts(root, order, <<sorted_fields[k].pos>>,
                                 sorted_fields[k].amount, load_all)]), root))

\* Layouts::new: the entry list and top_layouts_count
Layouts_new(root, order, height) ==
  With(root_layouts(root, order, FALSE), LAMBDA items :
    [items |-> items, top_layouts_count |-> calc_top_layouts_count(items), height |-> height,
     scroll |-> 0])

RECURSIVE SumHeights(_)
SumHeights(items) == IF items = <<>> THEN 0 ELSE Head(items).height + SumHeights(Tail(items))

\* an expand_collapsed that leaves the placeholder as it is
expand_nothing(items, root, order, pos) == [items |-> items, count |-> 1, lines |-> 1]

\* Layouts::expand_collapsed at the (0-based) position pos: the new entry
\* list, the number of entries that took the place of the one, their lines
expand_collapsed(items, root, order, pos) ==
  IF pos >= Len(items) THEN [items |-> items, count |-> 0, lines |-> 0]
  ELSE With(sized(create_message_layouts(root, order, items[pos + 1].path,
                    IF get_field(root, items[pos + 1].path) # None THEN 1 ELSE 0, TRUE), root),
            LAMBDA layouts :
         [items |-> SubSeq(items, 1, pos) \o layouts \o SubSeq(items, pos + 2, Len(items)),
          count |-> Len(layouts),
          lines |-> SumHeights(layouts)])

\* Layouts::ensure_loaded, the first loop (from layout_index downwards)
RECURSIVE ensure_loaded_after(_, _, _, _, _)
ensure_loaded_after(items, root, order, i, remain) ==
  IF i >= Len(items) THEN items
  ELSE IF items[i + 1].layout # "None"
  THEN With([items EXCEPT ![i + 1] = calc_sizes(items[i + 1], root)], LAMBDA sized_i :
         With(remain - sized_i[i + 1].height, LAMBDA left :
           IF left <= 0 THEN sized_i
           ELSE ensure_loaded_after(sized_i, root, order, i + 1, left)))
  ELSE With(expand_collapsed(items, root, order, i), LAMBDA e :
         IF remain - e.lines <= 0 THEN e.items
         ELSE ensure_loaded_after(e.items, root, order, i + e.count, remain - e.lines))

\* Layouts::ensure_loaded, the second loop (from layout_index upwards):
\* the entries and selection.layout
RECURSIVE ensure_loaded_before(_, _, _, _, _, _)
ensure_loaded_before(items, root, order, i, remain, sel_layout) ==
  IF i <= 0 THEN [items |-> items, layout |-> sel_layout]
  ELSE IF items[i].layout # "None"
  THEN With([items EXCEPT ![i] = calc_sizes(items[i], root)], LAMBDA sized_i :
         With(remain - sized_i[i].height, LAMBDA left :
           IF left <= 0 THEN [items |-> sized_i, layout |-> sel_layout]
           ELSE ensure_loaded_before(sized_i, root, order, i - 1, left, sel_layout)))
  ELSE With(expand_collapsed(items, root, order, i - 1), LAMBDA e :
         With(IF sel_layout > i - 1 THEN sel_layout + e.count ELSE sel_layout, LAMBDA sel :
           IF remain - e.lines <= 0 THEN [items |-> e.items, layout |-> sel]
           ELSE ensure_loaded_before(e.items, root, order, i - 1, remain - e.lines, sel)))

\* Layouts::ensure_loaded
ensure_loaded(items, root, order, layout_index, lines_before, lines_after, sel_layout) ==
  ensure_loaded_before(ensure_loaded_after(items, root, order, layout_index, lines_after),
                       root, order, layout_index, lines_before, sel_layout)

\* Layouts::calc_children_count: the entries from parent_pos to the end of
\* its descendants
calc_children_count(items, parent_pos) ==
  IF parent_pos >= Len(items) THEN 0
  ELSE LET path_len == level(items[parent_pos + 1])
           stops == {e \in (parent_pos + 1) .. (Len(items) - 1) : level(items[e + 1]) <= path_len}
           end_pos == IF stops = {} THEN Len(items)
                      ELSE CHOOSE e \in stops : \A f \in stops : e <= f
       IN end_pos - parent_pos

\* Layouts::get_parent_pos, -1 for None
get_parent_pos(items, pos) ==
  IF pos >= Len(items) THEN -1
  ELSE LET parent_len == level(items[pos + 1]) - 1
           found == {q \in 0 .. (pos - 1) : level(items[q + 1]) = parent_len}
       IN IF found = {} THEN -1 ELSE CHOOSE q \in found : \A r \in found : r <= q

\* an update_after_data_changed that leaves the entries as they are
update_keeps_entries(lay, root, order, changed_layout) == lay

\* Layouts::update_after_data_changed
update_after_data_changed(lay, root, order, changed_layout) ==
  With(get_parent_pos(lay.items, changed_layout), LAMBDA parent_pos :
    IF parent_pos # -1
    THEN LET children_count == calc_children_count(lay.items, parent_pos)
             counted == [lay.items EXCEPT ![parent_pos + 1].children_count = children_count]
             parent == counted[parent_pos + 1]
         IN IF get_submessage(root, parent.path) # None
            THEN [lay EXCEPT !.items =
                    SubSeq(counted, 1, parent_pos)
                      \o sized(create_message_layouts(root, order, parent.path, 1, TRUE), root)
                      \o SubSeq(counted, parent_pos + children_count + 1, Len(counted))]
            ELSE [lay EXCEPT !.items = counted]
    ELSE With(root_layouts(root, order, TRUE), LAMBDA items :
           [lay EXCEPT !.items = items, !.top_layouts_count = calc_top_layouts_count(items)]))

\* Layouts::update_layouts, which App::after_event calls after a data change
update_layouts(lay, root) == [lay EXCEPT !.items = sized(@, root)]

\* f32 values are held as exact fractions n/d in lowest terms
RECURSIVE gcd(_, _)
gcd(a, b) == IF b = 0 THEN a ELSE gcd(b, a % b)

Frac(n, d) == LET g == gcd(n, d) IN [n |-> n \div g, d |-> d \div g]

\* Layouts::calc_relative_pos, the first loop: index_n_size when it breaks
RECURSIVE index_n_size(_, _, _, _, _)
index_n_size(items, pos, index, lvl, stack) ==
  LET layout == items[pos + 1]
      current_level == level(layout)
      lower == lvl = USIZE_MAX \/ current_level < lvl
      new_level == IF lower THEN current_level ELSE lvl
      pushed == IF lower THEN stack \o <<index, layout.children_count>> ELSE stack
      idx == IF lower THEN 0 ELSE index
  IN IF pos = 0 THEN Append(pushed, idx)
     ELSE index_n_size(items, pos - 1,
                       IF current_level = new_level THEN idx + 1 ELSE idx,
                       new_level, pushed)

\* the fold with the weight divided by the sibling count instead of the
\* count plus one
RECURSIVE relative_fold_size(_, _, _)
relative_fold_size(stack, position, valuable) ==
  IF stack = <<>> THEN position
  ELSE LET size == stack[Len(stack)]
           index == stack[Len(stack) - 1]
           rest == SubSeq(stack, 1, Len(stack) - 2)
       IN IF size > 0
          THEN relative_fold_size(rest,
                 Frac(position.n * valuable.d * size + valuable.n * index * position.d,
                      position.d * valuable.d * size),
                 Frac(valuable.n, valuable.d * size))
          ELSE relative_fold_size(rest, position, valuable)

\* Layouts::calc_relative_pos, the second loop: pops (index, size) pairs
RECURSIVE relative_fold(_, _, _)
relative_fold(stack, position, valuable) ==
  IF stack = <<>> THEN position
  ELSE LET size == stack[Len(stack)]
           index == stack[Len(stack) - 1]
           rest == SubSeq(stack, 1, Len(stack) - 2)
       IN IF size > 0
          THEN relative_fold(rest,
                 Frac(position.n * valuable.d * size + valuable.n * index * position.d,
                      position.d * valuable.d * size),
                 Frac(valuable.n, valuable.d * (size + 1)))
          ELSE relative_fold(rest, position, valuable)

\* Layouts::calc_relative_pos
calc_relative_pos(lay, pos) ==
  IF pos >= Len(lay.items)
  THEN IF lay.items = <<>> THEN Frac(0, 1) ELSE Frac(1, 1)
  ELSE relative_fold(Append(index_n_size(lay.items, pos, 0, USIZE_MAX, <<>>),
                            lay.top_layouts_count),
                     Frac(0, 1), Frac(1, 1))

\* struct Selection, Selection::default()
Selection(layout, y, x) == [layout |-> layout, y |-> y, x |-> x]

\* CommandResult: None, Redraw, Exit, ChangeData(change); "Panic" stands
\* for a command that ended the process with a panic
CommandResult(kind) == [kind |-> kind]
ChangeDataResult(change) == [kind |-> "ChangeData", change |-> change]

\* a < b for usize values (a negative Int stands for 2^64 minus its size)
usize_lt(a, b) == IF (a < 0) = (b < 0) THEN a < b ELSE b < 0

\* LayoutParams::on_command(ScrollVertically(delta)): a loaded entry takes
\* on_command_default_handler's cursor_pos += delta (the cast to usize
\* wraps), an entry with no layout does nothing
on_command_scroll(item, sel, delta) ==
  IF item.layout = "None" THEN sel ELSE [sel EXCEPT !.y = @ + delta]

\* Layouts::run_command, UserCommand::ScrollVertically: the selection after
\* the loop.  `command` is the delta the command came with, which
\* run_active_layout_command hands to the entry; `delta` is the loop's copy
RECURSIVE scroll_vertically(_, _, _, _, _)
scroll_vertically(items, sel, command, delta, from_beneath) ==
  IF delta = 0 THEN sel
  ELSE IF sel.layout >= Len(items) THEN Selection(0, 0, 0)
  ELSE LET current == items[sel.layout + 1] IN
       IF delta > 0
       THEN IF usize_lt(sel.y + delta, current.height)
            THEN on_command_scroll(current, sel, command)
            ELSE IF sel.layout + 1 >= Len(items)
                 THEN [sel EXCEPT !.y = current.height - 1]
                 ELSE scroll_vertically(items, [sel EXCEPT !.layout = @ + 1, !.y = 0],
                                        command, delta - (current.height - sel.y), from_beneath)
       ELSE LET y == IF from_beneath THEN current.height - 1 ELSE sel.y IN
            IF ~usize_lt(y, -delta)
            THEN on_command_scroll(current, [sel EXCEPT !.y = y], command)
            ELSE IF sel.layout = 0
                 THEN [sel EXCEPT !.y = 0]
                 ELSE scroll_vertically(items, [sel EXCEPT !.layout = @ - 1, !.y = y],
                                        command, delta + y + 1, TRUE)

\* the same loop: debug_assert!(current.layout.is_some()) holds for every
\* entry the loop comes to
RECURSIVE scroll_asserts(_, _, _, _)
scroll_asserts(items, sel, delta, from_beneath) ==
  IF delta = 0 THEN TRUE
  ELSE IF sel.layout >= Len(items) THEN TRUE
  ELSE LET current == items[sel.layout + 1] IN
       /\ current.layout # "None"
       /\ IF delta > 0
          THEN IF usize_lt(sel.y + delta, current.height) THEN TRUE
               ELSE IF sel.layout + 1 >= Len(items) THEN TRUE
               ELSE scroll_asserts(items, [sel EXCEPT !.layout = @ + 1, !.y = 0],
                                   delta - (current.height - sel.y), from_beneath)
          ELSE LET y == IF from_beneath THEN current.height - 1 ELSE sel.y IN
               IF ~usize_lt(y, -delta) THEN TRUE
               ELSE IF sel.layout = 0 THEN TRUE
               ELSE scroll_asserts(items, [sel EXCEPT !.layout = @ - 1, !.y = y],
                                   delta + y + 1, TRUE)

\* a toggle that leaves the entry list as it is
toggle_nothing(items, root, order, sel) == items

\* Layouts::run_command, UserCommand::CollapsedToggle: the entry list
collapsed_toggle(items, root, order, sel) ==
  IF sel.layout >= Len(items) THEN items
  ELSE LET current == items[sel.layout + 1] IN
       IF current.layout = "Message"
       THEN IF get_submessage(root, current.path) # None
            THEN LET end_pos == sel.layout + calc_children_count(items, sel.layout) IN
                 SubSeq(items, 1, sel.layout)
                   \o <<LayoutParams(current.path, current.amount, "Collapsed")>>
                   \o SubSeq(items, end_pos + 1, Len(items))
            ELSE items
       ELSE IF current.layout = "Collapsed"
       THEN expand_collapsed(items, root, order, sel.layout).items
       ELSE items

\* the CommandResult::ChangeData of InsertData and DeleteData with the
\* cursor on the field name (x = 0, y = 0), None when the command gives
\* no change
change_data(command, items, root, sel) ==
  IF sel.layout >= Len(items) \/ sel.x # 0 \/ sel.y # 0 THEN None
  ELSE LET current == items[sel.layout + 1] IN
       IF command = "InsertData"
       THEN Insert(current.path, field_default(get_field_definition(root, current.path)))
       ELSE IF current.layout = "None" THEN None
       ELSE Delete(current.path)

\* --------------------------------------------------------- the view run
TOP_LINE == 1
MaxEdits == 1

\* make_test_data_1, and f1, f2, m3 { m6 { f8 } }, f4
ViewSamples ==
  { <<8, 1, 16, 20, 16, 21, 26, 16, 40, 5, 50, 4, 64, 8, 72, 9,
      50, 4, 64, 10, 72, 11, 56, 7>>,
    <<8, 1, 16, 20, 26, 4, 50, 2, 64, 8, 32, 4>> }

\* the orders and terminal heights App::for_tests is called with: 25 lines
\* as in the tests, and 2 lines, where the window ends before m3
ViewOrders == {"Proto", "Wire"}
ViewHeights == {2, 25}
\* the terminal width of the end-to-end tests: every entry takes one line
ViewWidth == 50

\* Up, Down (ScrollVertically(-1), (1)) and the mouse wheel ((-3), (3))
ScrollDeltas == {-3, -1, 1, 3}

\* the paths of the entries that are placeholders in `before` and loaded in `after`
Expanded(before, after) ==
  {before[i].path : i \in {k \in 1 .. Len(before) : before[k].layout = "None"}}
    \cap {after[i].path : i \in {k \in 1 .. Len(after) : after[k].layout # "None"}}

\* p is the entry at q, another occurrence of q's field, or below one
SameField(p, q) ==
  /\ Len(p) >= Len(q)
  /\ SubSeq(p, 1, Len(q) - 1) = SubSeq(q, 1, Len(q) - 1)
  /\ p[Len(q)].id = q[Len(q)].id

Below(p, q) == Len(p) > Len(q) /\ SubSeq(p, 1, Len(q)) = q

\* App::for_tests
ViewInit ==
  /\ build = "release"
  /\ VarintIdle
  /\ WireIdle
  /\ DocIdle
  /\ SortIdle
  /\ SaveIdle
  /\ IndentIdle
  /\ \E b \in ViewSamples : app_data = MessageData_new(build, b, "MM", Len(b)).value
  /\ field_order \in ViewOrders
  /\ app_height \in ViewHeights
  /\ app_width = ViewWidth
  /\ test_mode = TRUE
  /\ \E made \in {Layouts_new(app_data, field_order, app_height - TOP_LINE)} :
       \E e \in {ensure_loaded(made.items, app_data, field_order, 0, 0, app_height, 0)} :
         /\ app_layouts = [made EXCEPT !.items = e.items]
         /\ hist = [edits |-> 0, within |-> Expanded(made.items, e.items),
                    collapsed |-> {}, phase |-> 0, saved |-> <<>>, at |-> 0]
  /\ app_selected = Selection(0, 0, 0)
  /\ app_result = CommandResult("None")

\* App::after_event: the selection is brought back into the entry list
after_event(sel, items) ==
  IF sel.layout >= Len(items)
  THEN [sel EXCEPT !.layout = (IF Len(items) > 1 THEN Len(items) ELSE 1) - 1]
  ELSE sel

\* App::calc_scroll_pos: the first line of the window that shows the cursor
calc_scroll_pos(lay, sel, height) ==
  With(IF sel.layout < Len(lay.items)
       THEN SumHeights(SubSeq(lay.items, 1, sel.layout)) + sel.y ELSE 0,
       LAMBDA selected_line :
         IF ~usize_lt(selected_line + 1, lay.scroll + (height - TOP_LINE))
         THEN selected_line + 1 - (height - TOP_LINE)
         ELSE IF usize_lt(selected_line, lay.scroll) THEN selected_line
         ELSE lay.scroll)

\* App::first_visible_line: the entry the window starts in, and the lines of
\* it above the window
RECURSIVE first_visible_line(_, _, _)
first_visible_line(items, layout_index, skip_lines) ==
  IF items = <<>> THEN [layout_index |-> 0, skip_lines |-> 0]
  ELSE IF layout_index >= Len(items)
  THEN [layout_index |-> Len(items) - 1, skip_lines |-> items[Len(items)].height - 1]
  ELSE IF usize_lt(skip_lines, items[layout_index + 1].height)
  THEN [layout_index |-> layout_index, skip_lines |-> skip_lines]
  ELSE first_visible_line(items, layout_index + 1, skip_lines - items[layout_index + 1].height)

\* App::update, up to print_top_line: the entries of the window are loaded
App_update(lay, root, order, sel, height) ==
  With(first_visible_line(lay.items, 0, lay.scroll), LAMBDA top :
    With(ensure_loaded(lay.items, root, order, top.layout_index, 0, height + top.skip_lines,
                       sel.layout),
         LAMBDA e : [lay |-> [lay EXCEPT !.items = e.items],
                     sel |-> [sel EXCEPT !.layout = e.layout]]))

\* App::after_event with need_update set: the scroll position, the
\* selection brought back into the list and, out of test mode, update
App_after_event(lay, root, order, sel) ==
  With([lay EXCEPT !.scroll = calc_scroll_pos(lay, sel, app_height)], LAMBDA scrolled :
    IF test_mode THEN [lay |-> scrolled, sel |-> after_event(sel, lay.items)]
    ELSE App_update(scrolled, root, order, after_event(sel, lay.items), app_height))

\* the layouts and the selection an event leaves
Settle(lay, root, order, sel) ==
  \E l \in {lay} : \E s \in {sel} : \E out \in {App_after_event(l, root, order, s)} :
    /\ app_layouts' = out.lay
    /\ app_selected' = out.sel

\* App::run_command(ScrollVertically(delta)), after_command, after_event
ScrollVerticallyStep(delta) ==
  \E e \in {ensure_loaded(app_layouts.items, app_data, field_order, app_selected.layout,
                          IF delta < 0 THEN (-delta) + 1 + app_height ELSE 0,
                          IF delta < 0 THEN 0 ELSE delta + 1,
                          app_selected.layout)} :
    /\ Settle([app_layouts EXCEPT !.items = e.items], app_data, field_order,
              scroll_vertically(e.items, [app_selected EXCEPT !.layout = e.layout],
                                delta, delta, FALSE))
    /\ app_result' = CommandResult("Redraw")
    /\ UNCHANGED <<build, varintVars, wireVars, docVars, sortVars, saveVars, indentVars, app_data, field_order, app_height, app_width, test_mode>>

\* the step with the history of the view run: the entries it loaded
ScrollVertically(delta) ==
  /\ ScrollVerticallyStep(delta)
  /\ hist' = [hist EXCEPT !.within = @ \cup Expanded(app_layouts.items, app_layouts'.items),
                          !.phase = 0, !.saved = <<>>, !.at = 0]

\* App::run_command(CollapsedToggle), after_command, after_event
CollapsedToggleStep ==
  /\ \E items \in {collapsed_toggle(app_layouts.items, app_data, field_order, app_selected)} :
       /\ Settle([app_layouts EXCEPT !.items = items], app_data, field_order, app_selected)
       /\ app_result' = CommandResult("Redraw")
  /\ UNCHANGED <<build, varintVars, wireVars, docVars, sortVars, saveVars, indentVars, app_data, field_order, app_height, app_width, test_mode>>

\* the step with the history of the view run: what is collapsed, and the
\* list before a collapse that an expand at the same place follows
CollapsedToggle ==
  LET current == app_layouts.items[app_selected.layout + 1]
      collapses == /\ current.layout = "Message"
                   /\ get_submessage(app_data, current.path) # None
      expands == current.layout = "Collapsed"
      kept == {p \in hist.collapsed : p # current.path /\ ~Below(p, current.path)}
  IN /\ app_selected.layout < Len(app_layouts.items)
     /\ CollapsedToggleStep
     /\ hist' =
          IF collapses
          THEN [hist EXCEPT !.collapsed = kept \cup {current.path},
                            !.phase = 1, !.saved = app_layouts.items, !.at = app_selected.layout]
          ELSE IF expands
          THEN [hist EXCEPT !.collapsed = kept,
                            !.phase = IF hist.phase = 1 /\ hist.at = app_selected.layout
                                      THEN 2 ELSE 0]
          ELSE [hist EXCEPT !.phase = 0, !.saved = <<>>, !.at = 0]

\* App::run_command(InsertData) and (DeleteData(false)) with the cursor on
\* the field name, after_command (apply, update_after_data_changed),
\* after_event
ChangeData(command) ==
  /\ hist.edits < MaxEdits
  /\ \E change \in {change_data(command, app_layouts.items, app_data, app_selected)} \ {None} :
       /\ app_data' = apply(app_data, change).msg
       /\ Settle(update_layouts(update_after_data_changed(app_layouts, app_data',
                                   field_order, app_selected.layout), app_data'),
                 app_data', field_order, app_selected)
       /\ app_result' = CommandResult("ChangeData")
       /\ hist' = [hist EXCEPT
                     !.edits = @ + 1,
                     !.within = @ \cup {app_layouts'.items[i].path : i \in
                                  {k \in 1 .. Len(app_layouts'.items) :
                                     SameField(app_layouts'.items[k].path, change.path)}},
                     !.collapsed = {p \in @ : ~SameField(p, change.path)},
                     !.phase = 0, !.saved = <<>>, !.at = 0]
  /\ UNCHANGED <<build, varintVars, wireVars, docVars, sortVars, saveVars, indentVars, field_order, app_height, app_width, test_mode>>

ViewNext ==
  \/ \E delta \in ScrollDeltas : ScrollVertically(delta)
  \/ CollapsedToggle
  \/ \E command \in {"InsertData", "DeleteData"} : ChangeData(command)

SpecView == ViewInit /\ [][ViewNext]_vars

\* ----------------------------------------------------------------- C15
Items == IF app_layouts = None THEN <<>> ELSE app_layouts.items

\* calc_relative_pos of every entry, in entry order
RelPositions(lay) ==
  SubSeq([k \in 1 .. Len(lay.items) |-> calc_relative_pos(lay, k - 1)], 1, Len(lay.items))

FracLe(a, b) == a.n * b.d <= b.n * a.d

\* C15: the relative position never decreases along the entry list:
\* calc_relative_pos(i) <= calc_relative_pos(j) for all entries i < j,
\* also from the last descendant of an entry to the entry's next sibling
RelativeMonotone ==
  app_layouts # None =>
    LET pos == RelPositions(app_layouts) IN
    \A i, j \in 1 .. Len(pos) : i < j => FracLe(pos[i], pos[j])

\* ----------------------------------------------------------------- C16
\* for every entry the entry (from 0) it is a direct child of, -1 at the
\* top level
ParentEntries(items) ==
  SubSeq([k \in 1 .. Len(items) |-> get_parent_pos(items, k - 1)], 1, Len(items))

\* position += weight * (ordinal / count); weight /= (count + 1), from the
\* root down to each entry: count is the number of entries present under
\* the entry's parent, ordinal the entry's place among them, from 0 at the
\* top level and from 1 below it
RECURSIVE FoldPositions(_, _, _, _)
FoldPositions(par, k, weights, positions) ==
  IF k > Len(par) THEN positions
  ELSE LET count == Cardinality({m \in 1 .. Len(par) : par[m] = par[k]})
           ordinal == Cardinality({m \in 1 .. (k - 1) : par[m] = par[k]})
                        + (IF par[k] = -1 THEN 0 ELSE 1)
           before == IF par[k] = -1 THEN Frac(0, 1) ELSE positions[par[k] + 1]
           w == IF par[k] = -1 THEN Frac(1, 1)
                ELSE LET up == par[k] + 1
                         upcount == Cardinality({m \in 1 .. Len(par) : par[m] = par[up]})
                     IN Frac(weights[up].n, weights[up].d * (upcount + 1))
       IN FoldPositions(par, k + 1, Append(weights, w),
            Append(positions,
                   Frac(before.n * w.d * count + w.n * ordinal * before.d,
                        before.d * w.d * count)))

\* the 12 entries of make_test_data_1 in Proto order, all loaded
TwelveEntries ==
  /\ field_order = "Proto" /\ hist.edits = 0 /\ Len(Items) = 12
  /\ \A i \in 1 .. 12 : Items[i].layout \notin {"None", "Collapsed"}

\* C16: calc_relative_pos(0) is 0, an entry's next sibling has a strictly
\* larger relative position, the value is the root-down fold over the
\* numbers of entries actually present under each ancestor (which
\* children_count and top_layouts_count hold), and the 12 entries of the
\* end-to-end document get 0, .25, .5, .55, .6, .65, .7, .75 at entries
\* 0, 1, 2, 3, 4, 7, 10, 11
RelativeFold ==
  app_layouts # None =>
    LET items == app_layouts.items
        par == ParentEntries(items)
        pos == RelPositions(app_layouts)
        fold == FoldPositions(par, 1, <<>>, <<>>)
    IN
    /\ items # <<>> => pos[1] = Frac(0, 1)
    /\ app_layouts.top_layouts_count =
         Cardinality({k \in 1 .. Len(items) : level(items[k]) = 1})
    /\ \A i \in 1 .. Len(items) :
         /\ items[i].children_count = Cardinality({k \in 1 .. Len(items) : par[k] = i - 1})
         /\ \A j \in (i + 1) .. Len(items) : par[j] = par[i] => ~FracLe(pos[j], pos[i])
    /\ pos = fold
    /\ TwelveEntries =>
         /\ pos[1] = Frac(0, 1)    /\ pos[2] = Frac(1, 4)
         /\ pos[3] = Frac(1, 2)    /\ pos[4] = Frac(11, 20)
         /\ pos[5] = Frac(3, 5)    /\ pos[8] = Frac(13, 20)
         /\ pos[11] = Frac(7, 10)  /\ pos[12] = Frac(3, 4)

\* the end-to-end document after m3 was collapsed and expanded again, the
\* cursor on m3
RelativeFoldWitness ==
  /\ app_layouts # None
  /\ TwelveEntries
  /\ hist.phase = 2
  /\ app_selected.layout = 2
  /\ calc_relative_pos(app_layouts, 8) = Frac(67, 100)

\* ----------------------------------------------------------------- C17
\* C17: every relative position lies in [0, 1]:
\* 0 <= calc_relative_pos(index) <= 1 for every entry index
RelativeInUnit ==
  app_layouts # None =>
    LET pos == RelPositions(app_layouts) IN
    \A i \in 1 .. Len(pos) : pos[i].n >= 0 /\ pos[i].n <= pos[i].d

\* ----------------------------------------------------------------- C18
\* C18: with the document unchanged, CollapsedToggle on a loaded message
\* entry followed at once by CollapsedToggle on the collapsed entry it left
\* gives back the entry list as it was before the first toggle: the same
\* paths in the same order, in the same state, with the same heights and
\* children_count
ToggleRestores ==
  hist # None => (hist.phase = 2 => app_layouts.items = hist.saved)

\* ----------------------------------------------------------------- C19
\* C19: a placeholder is expanded only by ensure_loaded, within the line
\* budget it was called with: every top-level message entry that is not a
\* placeholder was expanded by ensure_loaded (hist.within) or is an
\* occurrence of the field the cursor was on when it was edited
LoadedWithinBudget ==
  app_layouts # None =>
    \A i \in 1 .. Len(app_layouts.items) :
      LET item == app_layouts.items[i] IN
        (level(item) = 1 /\ item.layout \in {"Message", "Collapsed"})
          => item.path \in hist.within

\* ----------------------------------------------------------------- C20
\* C20: an entry the user collapsed (hist.collapsed: collapsed by
\* CollapsedToggle, not toggled since, not the edited field or below it,
\* not below an entry toggled since) is Collapsed wherever it is shown
CollapsedKept ==
  hist # None =>
    \A p \in hist.collapsed :
      \A i \in 1 .. Len(app_layouts.items) :
        app_layouts.items[i].path = p => app_layouts.items[i].layout = "Collapsed"

\* -------------------------------------------------------- the scroll run
MaxScrollLen == 4

\* message M1 with the repeated a3 and the single c1 in any file order
ScrollSamples ==
  {SortBytes(ids) : ids \in UNION {[1 .. n -> {1, 3}] : n \in 1 .. MaxScrollLen}}

\* a window of 14 columns, where a3 takes a line for its name and the
\* following values wrap, and 4 lines (PageDown is ScrollVertically(2))
ScrollWidths == {14, 50}
ScrollHeight == 4
MaxCursorY == 6

\* App::for_tests
ScrollInit ==
  /\ build = "release"
  /\ VarintIdle
  /\ WireIdle
  /\ DocIdle
  /\ SortIdle
  /\ SaveIdle
  /\ IndentIdle
  /\ \E b \in ScrollSamples : app_data = MessageData_new(build, b, "M1", Len(b)).value
  /\ field_order \in ViewOrders
  /\ app_height = ScrollHeight
  /\ app_width \in ScrollWidths
  /\ test_mode = TRUE
  /\ \E made \in {Layouts_new(app_data, field_order, app_height - TOP_LINE)} :
       \E e \in {ensure_loaded(made.items, app_data, field_order, 0, 0, app_height, 0)} :
         /\ app_layouts = [made EXCEPT !.items = e.items]
         /\ hist = [edits |-> 0, within |-> Expanded(made.items, e.items),
                    collapsed |-> {}, phase |-> 0, saved |-> <<>>, at |-> 0]
  /\ app_selected = Selection(0, 0, 0)
  /\ app_result = CommandResult("None")

\* Up, Down, the mouse wheel, PageUp and PageDown
\* (a cursor line that left every entry is followed MaxCursorY lines far)
ScrollNext ==
  /\ app_selected.y >= -MaxCursorY
  /\ app_selected.y <= MaxCursorY
  /\ \E delta \in ScrollDeltas \cup {-(app_height - TOP_LINE - 1), app_height - TOP_LINE - 1} :
       ScrollVertically(delta)

SpecScroll == ScrollInit /\ [][ScrollNext]_vars

\* ----------------------------------------------------------------- C21
\* the screen line the cursor is on, counted from the first line of the
\* first entry
CursorLine(items, sel) == SumHeights(SubSeq(items, 1, sel.layout)) + sel.y

AllLoaded(items) == \A i \in 1 .. Len(items) : items[i].layout # "None"

CursorInEntry(items, sel) ==
  /\ sel.layout < Len(items)
  /\ sel.y >= 0 /\ sel.y < items[sel.layout + 1].height

\* C21: on a loaded entry list with the cursor on a line of an entry,
\* ScrollVertically(d) moves the cursor exactly |d| screen lines in the
\* direction of d, stopping at the first line of the first entry or the
\* last line of the last entry (so n commands of one line and one command
\* of n lines end on the same entry and line)
ScrollCountsLines ==
  [][\A d \in ScrollDeltas \cup {-2, 2} :
       (/\ app_layouts # None
        /\ AllLoaded(app_layouts.items)
        /\ CursorInEntry(app_layouts.items, app_selected)
        /\ ScrollVertically(d))
       => LET line == CursorLine(app_layouts.items, app_selected) + d
              last == SumHeights(app_layouts.items) - 1
          IN /\ app_layouts'.items = app_layouts.items
             /\ CursorInEntry(app_layouts'.items, app_selected')
             /\ CursorLine(app_layouts'.items, app_selected') =
                  IF line < 0 THEN 0 ELSE IF line > last THEN last ELSE line]_vars

\* ------------------------------------------------------------ the editors
\* ByteEditor: first_nibble is {} for None and {n} for Some(n)
ByteEditor_new(pos) == [kind |-> "Byte", pos |-> pos, first_nibble |-> {}]

\* ByteEditor::char_to_nibble of the character with the given code
char_to_nibble(c) ==
  IF c \in 48 .. 57 THEN {c - 48}
  ELSE IF c \in 97 .. 102 THEN {c - 97 + 10}
  ELSE IF c \in 65 .. 70 THEN {c - 65 + 10}
  ELSE {}

\* an editor that gives a byte for every hexadecimal character, the
\* nibble entered before or zero as its high nibble
on_char_every(edit, c) ==
  [edit |-> [edit EXCEPT !.pos = @ + 1, !.first_nibble = {}],
   byte |-> {16 * prev_nibble + nibble :
               prev_nibble \in (IF edit.first_nibble = {} THEN {0} ELSE edit.first_nibble),
               nibble \in char_to_nibble(c)}]

\* ByteEditor::on_char: the editor after the call and the byte returned
\* ({} for None)
ByteEditor_on_char(edit, c) ==
  IF edit.first_nibble # {}
  THEN IF char_to_nibble(c) # {}
       THEN [edit |-> [edit EXCEPT !.pos = @ + 1, !.first_nibble = {}],
             byte |-> {16 * prev_nibble + nibble :
                         prev_nibble \in edit.first_nibble, nibble \in char_to_nibble(c)}]
       ELSE [edit |-> edit, byte |-> {}]
  ELSE [edit |-> [edit EXCEPT !.first_nibble = char_to_nibble(c)], byte |-> {}]

\* TextEditor with its one cursor and no selected range, over a text of
\* one-byte characters without a line break that fits the window: the
\* text and selected[0].pos
TextEditor_new(text) == [kind |-> "Text", text |-> text, pos |-> 0]

\* TextLines::to2d of such a text: the column (the row is 0)
to2d(text, pos) == IF pos < Len(text) THEN pos ELSE Len(text)

\* TextLines::to1d of such a text, for the column x of any row
to1d(text, x) ==
  IF Len(text) = 0 THEN 0 ELSE IF x < Len(text) - 1 THEN x ELSE Len(text) - 1

\* TextEditor::on_move_x by one column to the right (delta > 0) or to the
\* left; ok is FALSE when text_bytes[x] is out of bounds
TextEditor_on_move_x(edit, delta) ==
  With(to2d(edit.text, edit.pos), LAMBDA x :
    IF delta >= 0
    THEN IF delta > 0 /\ x >= Len(edit.text) THEN [ok |-> FALSE, edit |-> edit]
         ELSE [ok |-> TRUE,
               edit |-> [edit EXCEPT !.pos =
                           to1d(edit.text, IF delta = 0 THEN x
                                           ELSE IF x + 1 >= Len(edit.text)
                                           THEN Len(edit.text) - 1 ELSE x + 1)]]
    ELSE [ok |-> TRUE,
          edit |-> [edit EXCEPT !.pos = to1d(edit.text, IF x >= -delta THEN x + delta ELSE 0)]])

\* TextEditor::on_char: TextSelection::on_char and TextChange::apply
TextEditor_on_char(edit, c) ==
  [edit EXCEPT !.text = SubSeq(@, 1, edit.pos) \o <<c>> \o SubSeq(@, edit.pos + 1, Len(@)),
               !.pos = @ + 1]

\* TextEditor::on_delete: TextSelection::on_delete and TextChange::apply
TextEditor_on_delete(edit, backspace) ==
  IF ~backspace
  THEN IF edit.pos >= Len(edit.text) THEN edit
       ELSE [edit EXCEPT !.text = SubSeq(@, 1, edit.pos) \o SubSeq(@, edit.pos + 2, Len(@))]
  ELSE IF edit.pos = 0 THEN edit
       ELSE [edit EXCEPT !.text = SubSeq(@, 1, edit.pos - 1) \o SubSeq(@, edit.pos + 1, Len(@)),
                         !.pos = @ - 1]

\* ------------------------------------------------- commands to an entry
\* what on_command leaves: its result, the editor of the entry, and the
\* cursor_x and cursor_pos it was given by reference
Outcome(result, edit, x, y) == [result |-> result, edit |-> edit, x |-> x, y |-> y]

\* the UserCommand values
KeyPress(c) == [type |-> "KeyPress", c |-> c]
ScrollHorizontallyCmd(delta) == [type |-> "ScrollHorizontally", delta |-> delta]
DeleteDataCmd(backspace) == [type |-> "DeleteData", backspace |-> backspace]
InsertDataCmd == [type |-> "InsertData"]
ExitCmd == [type |-> "Exit"]

\* on_command_default_handler for the commands above
on_command_default_handler(path, command, edit, x, y) ==
  IF command.type = "DeleteData"
  THEN Outcome(IF x = 0 /\ y = 0 THEN ChangeDataResult(Delete(path)) ELSE CommandResult("None"),
               edit, x, y)
  ELSE IF command.type = "Exit" THEN Outcome(CommandResult("Exit"), edit, x, y)
  ELSE Outcome(CommandResult("None"), edit, x, y)

\* a string entry with no command of its own: every command goes to
\* on_command_default_handler
string_default_handler(root, item, command, x, y) ==
  on_command_default_handler(item.path, command, item.edit, x, y)

\* StringLayout::on_command
StringLayout_on_command(root, item, command, x, y) ==
  With(get_field(root, item.path), LAMBDA field :
    IF command.type = "ScrollHorizontally"
    THEN IF item.edit # None
         THEN With(TextEditor_on_move_x(item.edit, command.delta), LAMBDA moved :
                Outcome(CommandResult(IF moved.ok THEN "Redraw" ELSE "Panic"), moved.edit, x, y))
         ELSE Outcome(CommandResult("Redraw"),
                      IF command.delta > 0 /\ field # None /\ field.value.kind = "STR"
                      THEN TextEditor_new(field.value.bytes) ELSE None,
                      x, y)
    ELSE IF command.type = "DeleteData" /\ item.edit # None
    THEN Outcome(CommandResult("Redraw"), TextEditor_on_delete(item.edit, command.backspace), x, y)
    ELSE IF command.type = "KeyPress"
    THEN IF item.edit # None
         THEN Outcome(CommandResult("Redraw"), TextEditor_on_char(item.edit, command.c), x, y)
         ELSE Outcome(CommandResult("None"), None, x, y)
    ELSE IF command.type = "Exit" /\ item.edit # None
    THEN Outcome(ChangeDataResult(Overwrite(item.path, STR(item.edit.text))), None, x, y)
    ELSE on_command_default_handler(item.path, command, item.edit, x, y))

\* BytesLayout::cursor_from_data_index: (x, y)
cursor_from_data_index(bytes_per_line, index) ==
  [x |-> (index % bytes_per_line) + 1, y |-> index \div bytes_per_line]

\* BytesLayout::data_index_from_cursor, for cursor_x > 0
data_index_from_cursor(bytes_per_line, x, y) == x + bytes_per_line * y - 1

\* BytesLayout::change_current_byte
change_current_byte(bld, field, path, edit, edit_pos, byte_value, x, y) ==
  IF field # None /\ field.value.kind = "BYTES"
  THEN Outcome(ChangeDataResult(Overwrite(path, BYTES(
                 IF Len(field.value.bytes) + 1 <= edit_pos
                 THEN Append(field.value.bytes, byte_value)
                 ELSE [field.value.bytes EXCEPT ![edit_pos] = byte_value]))),
               edit, x, y)
  ELSE Outcome(CommandResult(IF bld = "debug" THEN "Panic" ELSE "Redraw"), edit, x, y)

\* BytesLayout::on_command.  sizes is what calc_sizes left in the layout
\* (data_size, bytes_per_line).  value.len() - 1 of an empty value
\* overflows, and with the wrapped value remove and insert are out of range
BytesLayout_on_command(bld, root, item, sizes, command, x, y) ==
  With(get_field(root, item.path), LAMBDA field :
    With(field # None /\ field.value.kind = "BYTES", LAMBDA has_bytes :
      IF command.type = "DeleteData"
      THEN IF item.edit # None
           THEN change_current_byte(bld, field, item.path, item.edit, item.edit.pos + 1, 0, x, y)
           ELSE IF has_bytes /\ x # 0
           THEN IF field.value.bytes = <<>>
                THEN Outcome(CommandResult("Panic"), None, x, y)
                ELSE With(data_index_from_cursor(sizes.bytes_on_line, x, y), LAMBDA at :
                     With(IF at < Len(field.value.bytes) - 1 THEN at
                          ELSE Len(field.value.bytes) - 1, LAMBDA index :
                     With(SubSeq(field.value.bytes, 1, index)
                            \o SubSeq(field.value.bytes, index + 2, Len(field.value.bytes)),
                          LAMBDA value :
                     With(IF Len(value) > 0
                          THEN cursor_from_data_index(sizes.bytes_on_line,
                                 IF index < Len(value) - 1 THEN index ELSE Len(value) - 1)
                          ELSE [x |-> 0, y |-> y], LAMBDA cursor :
                       Outcome(ChangeDataResult(Overwrite(item.path, BYTES(value))),
                               None, cursor.x, cursor.y)))))
           ELSE on_command_default_handler(item.path, command, None, x, y)
      ELSE IF command.type = "InsertData"
      THEN IF has_bytes /\ x # 0
           THEN IF field.value.bytes = <<>>
                THEN Outcome(CommandResult("Panic"), item.edit, x, y)
                ELSE With(data_index_from_cursor(sizes.bytes_on_line, x, y), LAMBDA at :
                     With(IF at < Len(field.value.bytes) - 1 THEN at
                          ELSE Len(field.value.bytes) - 1, LAMBDA index :
                     With(cursor_from_data_index(sizes.bytes_on_line, index + 1), LAMBDA cursor :
                       Outcome(ChangeDataResult(Overwrite(item.path,
                                 BYTES(InsertAt(field.value.bytes, index + 2, 0)))),
                               item.edit, cursor.x, cursor.y))))
           ELSE Outcome(CommandResult("None"), item.edit, x, y)
      ELSE IF command.type = "KeyPress"
      THEN IF item.edit # None
           THEN With(ByteEditor_on_char(item.edit, command.c), LAMBDA typed :
                With(cursor_from_data_index(sizes.bytes_on_line, typed.edit.pos), LAMBDA cursor :
                  IF typed.byte # {}
                  THEN change_current_byte(bld, field, item.path, typed.edit, typed.edit.pos,
                                           CHOOSE b \in typed.byte : TRUE, cursor.x, cursor.y)
                  ELSE Outcome(CommandResult("Redraw"), typed.edit, cursor.x, cursor.y)))
           ELSE Outcome(CommandResult("Redraw"),
                        IF x # 0
                        THEN ByteEditor_on_char(ByteEditor_new(
                               data_index_from_cursor(sizes.bytes_on_line, x, y)), command.c).edit
                        ELSE None,
                        x, y)
      ELSE IF command.type = "ScrollHorizontally"
      THEN IF command.delta > 0
           THEN IF has_bytes /\ field.value.bytes = <<>>
                THEN Outcome(CommandResult("Redraw"), ByteEditor_new(0), x, y)
                ELSE With(IF x + command.delta < sizes.bytes_on_line THEN x + command.delta
                          ELSE sizes.bytes_on_line, LAMBDA moved :
                       Outcome(CommandResult("Redraw"), None,
                               IF moved + y * sizes.bytes_on_line > sizes.data_size
                               THEN sizes.data_size % sizes.bytes_on_line ELSE moved, y))
           ELSE Outcome(CommandResult("Redraw"), None,
                        x - (IF -command.delta < x THEN -command.delta ELSE x), y)
      ELSE IF command.type = "Exit" /\ item.edit # None
      THEN Outcome(CommandResult("Redraw"), None, x, y)
      ELSE on_command_default_handler(item.path, command, item.edit, x, y)))

RECURSIVE SumLens(_)
SumLens(lens) == IF lens = <<>> THEN 0 ELSE Head(lens) + SumLens(Tail(lens))

\* ScalarLayout.line_lens as calc_sizes left it
line_lens(root, item, width) ==
  With(get_submessage(root, SubSeq(item.path, 1, Len(item.path) - 1)), LAMBDA msg :
    IF item.amount > 0 /\ msg # None
    THEN get_line_lens(width, indent_of(Len(item.path)), get_field_definition(root, item.path),
                       msg, item.path, item.amount)
    ELSE <<>>)

\* ScalarLayout::data_index_at_cursor
data_index_at_cursor(lens, x, y) ==
  IF x = 0 THEN USIZE_MAX
  ELSE SumLens(SubSeq(lens, 1, IF y >= 0 /\ y < Len(lens) THEN y ELSE Len(lens))) + x - 1

\* ScalarLayout::cursor_at_data_index: (x, y)
RECURSIVE cursor_at_data_index(_, _, _, _)
cursor_at_data_index(lens, index, line_index, sum) ==
  IF line_index >= Len(lens) THEN [x |-> 0, y |-> Len(lens)]
  ELSE IF sum + lens[line_index + 1] >= index THEN [x |-> index - sum + 1, y |-> line_index]
  ELSE cursor_at_data_index(lens, index, line_index + 1, sum + lens[line_index + 1])

\* ScalarLayout::on_command.  With the cursor on the field name of a
\* lower line (x = 0, y > 0) the index is usize::MAX and the sums with it
\* overflow: a panic in a debug build, the wrapped sum in a release build
ScalarLayout_on_command(bld, root, item, lens, command, x, y) ==
  With(data_index_at_cursor(lens, x, y), LAMBDA index :
    With(item.path[Len(item.path)].index, LAMBDA first :
      IF command.type = "DeleteData"
      THEN IF x = 0 /\ y = 0
           THEN on_command_default_handler(item.path, command, None, x, y)
           ELSE IF index = USIZE_MAX /\ bld = "debug" /\ first > 0
           THEN Outcome(CommandResult("Panic"), None, x, y)
           ELSE With(IF item.amount > 0 /\ index # 0 /\ index = item.amount - 1
                     THEN cursor_at_data_index(lens, index - 1, 0, 0)
                     ELSE [x |-> x, y |-> y], LAMBDA cursor :
                  Outcome(ChangeDataResult(Delete(with_last_index(item.path, first + index))),
                          None, cursor.x, cursor.y))
      ELSE IF command.type = "InsertData"
      THEN IF index = USIZE_MAX /\ bld = "debug"
           THEN Outcome(CommandResult("Panic"), None, x, y)
           ELSE With(with_last_index(item.path, first + index + 1), LAMBDA path :
                With(cursor_at_data_index(lens, index + 1, 0, 0), LAMBDA cursor :
                With(get_field_definition(root, path), LAMBDA def :
                  IF def = None THEN Outcome(CommandResult("Panic"), None, cursor.x, cursor.y)
                  ELSE Outcome(ChangeDataResult(Insert(path, field_default(def))),
                               None, cursor.x, cursor.y))))
      ELSE IF command.type = "ScrollHorizontally"
      THEN IF y >= 0 /\ y < Len(lens)
           THEN Outcome(CommandResult("Redraw"), None,
                        IF command.delta > 0
                        THEN (IF x + command.delta < lens[y + 1] THEN x + command.delta
                              ELSE lens[y + 1])
                        ELSE x - (IF -command.delta < x THEN -command.delta ELSE x),
                        y)
           ELSE Outcome(CommandResult("None"), None, x, y)
      ELSE on_command_default_handler(item.path, command, None, x, y)))

\* LayoutParams::on_command
LayoutParams_on_command(bld, root, item, width, command, x, y) ==
  IF item.layout = "None" THEN Outcome(CommandResult("None"), item.edit, x, y)
  ELSE IF item.layout = "Str" THEN StringLayout_on_command(root, item, command, x, y)
  ELSE IF item.layout = "Bytes"
  THEN BytesLayout_on_command(bld, root, item,
                              bytes_calc_sizes(root, item.path, item.amount, width),
                              command, x, y)
  ELSE IF item.layout = "Scalar"
  THEN ScalarLayout_on_command(bld, root, item, line_lens(root, item, width), command, x, y)
  ELSE on_command_default_handler(item.path, command, None, x, y)

\* Layouts::run_command for a command other than ScrollVertically,
\* ScrollSibling, ScrollToBottom and CollapsedToggle, with
\* run_active_layout_command: the result, the entries and the selection
run_command(bld, items, root, width, sel, command) ==
  IF sel.layout >= Len(items) THEN [result |-> CommandResult("None"), items |-> items, sel |-> sel]
  ELSE IF command.type = "InsertData" /\ sel.x = 0 /\ sel.y = 0
  THEN With(get_field_definition(root, items[sel.layout + 1].path), LAMBDA def :
         [result |-> IF def = None THEN CommandResult("Panic")
                     ELSE ChangeDataResult(Insert(items[sel.layout + 1].path, field_default(def))),
          items |-> items, sel |-> sel])
  ELSE With(LayoutParams_on_command(bld, root, items[sel.layout + 1], width, command,
                                    sel.x, sel.y), LAMBDA out :
         [result |-> out.result,
          items |-> [items EXCEPT ![sel.layout + 1].edit = out.edit],
          sel |-> [sel EXCEPT !.x = out.x, !.y = out.y]])

\* --------------------------------------------------------- the edit run
MaxEditFields == 2
MaxEditLen == 1

\* s1 = "a", b2 = 01; b2 and s1 empty; i3 = 5 alone
EditSamples ==
  { <<10, 1, 97, 18, 1, 1>>, <<18, 0, 10, 0>>, <<24, 5>> }

\* the keys: '1' (a hexadecimal digit) and 'g'
EditKeys == {49, 103}

\* Left, Right, Delete, Backspace, Insert, F10 / Esc and the character keys
EditCommands ==
  {ScrollHorizontallyCmd(-1), ScrollHorizontallyCmd(1), DeleteDataCmd(FALSE),
   DeleteDataCmd(TRUE), InsertDataCmd, ExitCmd} \cup {KeyPress(c) : c \in EditKeys}

\* the document has at most MaxEditFields fields, and no value of it and
\* no open text editor holds more than MaxEditLen bytes, and no byte editor
\* stands behind the place after them
EditBounded(fields, items) ==
  /\ Len(fields) <= MaxEditFields
  /\ \A i \in 1 .. Len(fields) :
       fields[i].value.kind \in {"STR", "BYTES"} => Len(fields[i].value.bytes) <= MaxEditLen
  /\ \A i \in 1 .. Len(items) :
       items[i].edit # None
         => IF items[i].edit.kind = "Text" THEN Len(items[i].edit.text) <= MaxEditLen
            ELSE items[i].edit.pos <= MaxEditLen + 1

\* App::for_tests
EditInit ==
  /\ build \in {"debug", "release"}
  /\ VarintIdle
  /\ WireIdle
  /\ DocIdle
  /\ SortIdle
  /\ SaveIdle
  /\ IndentIdle
  /\ \E b \in EditSamples : app_data = MessageData_new(build, b, "ME", Len(b)).value
  /\ field_order \in ViewOrders
  /\ app_height = 25
  /\ app_width = ViewWidth
  /\ test_mode = TRUE
  /\ \E made \in {Layouts_new(app_data, field_order, app_height - TOP_LINE)} :
       \E e \in {ensure_loaded(made.items, app_data, field_order, 0, 0, app_height, 0)} :
         /\ app_layouts = [made EXCEPT !.items = e.items]
         /\ hist = [edits |-> 0, within |-> Expanded(made.items, e.items),
                    collapsed |-> {}, phase |-> 0, saved |-> <<>>, at |-> 0]
  /\ app_selected = Selection(0, 0, 0)
  /\ app_result = CommandResult("None")

\* the run loop goes on: no command returned Exit and none panicked
Running == app_result.kind \notin {"Exit", "Panic"}

\* App::on_key with a key of EditCommands: run_command, after_command
\* (apply, update_after_data_changed), after_event (update_layouts);
\* Command is Dispatch within the bounds of the edit run
Dispatch(command) ==
  /\ Running
  /\ \E out \in {run_command(build, app_layouts.items, app_data, app_width, app_selected,
                             command)} :
       /\ app_result' = CommandResult(out.result.kind)
       /\ IF out.result.kind = "ChangeData"
          THEN /\ app_data' = apply(app_data, out.result.change).msg
               /\ Settle(update_layouts(update_after_data_changed(
                                           [app_layouts EXCEPT !.items = out.items], app_data',
                                           field_order, out.sel.layout), app_data'),
                         app_data', field_order, out.sel)
          ELSE /\ app_data' = app_data
               /\ IF out.result.kind = "Redraw"
                  THEN Settle([app_layouts EXCEPT !.items = out.items], app_data, field_order,
                              out.sel)
                  ELSE /\ app_layouts' = [app_layouts EXCEPT !.items = out.items]
                       /\ app_selected' = out.sel
  /\ UNCHANGED <<build, varintVars, wireVars, docVars, sortVars, saveVars, indentVars, field_order, app_height,
                 app_width, test_mode>>

Command(command) ==
  /\ Dispatch(command)
  /\ EditBounded(app_data'.fields, app_layouts'.items)
  /\ UNCHANGED hist

EditNext ==
  \/ Running /\ \E delta \in {-1, 1} : ScrollVertically(delta)
  \/ \E command \in EditCommands : Command(command)

SpecEdit == EditInit /\ [][EditNext]_vars

\* ----------------------------------------------------------------- C22
\* the ScalarValue / FieldValue variant a field of the declared type holds
DeclaredKind(fd) ==
  IF is_message(fd) THEN "MESSAGE"
  ELSE IF fd.type = "string" THEN "STR"
  ELSE IF fd.type = "bytes" THEN "BYTES"
  ELSE IF fd.type = "bool" THEN "BOOL"
  ELSE IF fd.type = "int32" THEN "I32"
  ELSE "UNKNOWN"

\* every field of the message, at every depth, is UNKNOWN or holds the
\* variant of its descriptor, and its descriptor is the one its message
\* declares for its number
RECURSIVE VariantsMatch(_)
VariantsMatch(msg) ==
  \A i \in 1 .. Len(msg.fields) :
    LET field == msg.fields[i] IN
    \/ field.value.kind = "UNKNOWN"
    \/ /\ field.value.kind = DeclaredKind(field.def)
       /\ field.def = proto_get_field(msg.def, field.def.id)
       /\ field.value.kind = "MESSAGE"
            => field.value.def = field.def.type /\ VariantsMatch(field.value)

\* C22: in every state the editing commands (InsertData, DeleteData, key
\* presses, the commit of a text edit, byte edits) lead to, every stored
\* field holds the value variant of its declared type, UNKNOWN excepted
StoredVariantsMatch == VariantsMatch(app_data)

\* a typed byte and a committed text are stored
StoredVariantsMatchWitness ==
  /\ \E i \in 1 .. Len(app_data.fields) : app_data.fields[i].value = BYTES(<<17>>)
  /\ \E i \in 1 .. Len(app_data.fields) : app_data.fields[i].value = STR(<<49>>)
  /\ \E i \in 1 .. Len(app_data.fields) : app_data.fields[i].pos = USIZE_MAX

\* ----------------------------------------------------------------- C23
\* the entry covers occurrence k of field id of the message at path P
Covers(item, P, id, k) ==
  /\ Len(item.path) = Len(P) + 1
  /\ SubSeq(item.path, 1, Len(P)) = P
  /\ item.path[Len(item.path)].id = id
  /\ item.path[Len(item.path)].index <= k
  /\ k < item.path[Len(item.path)].index + item.amount

\* a loaded entry shows occurrences that exist, as many as its amount
\* says, or a field its message declares and does not hold
Resolves(item, root) ==
  IF item.amount > 0
  THEN \A j \in 0 .. (item.amount - 1) :
         get_field(root, with_last_index(item.path, item.path[Len(item.path)].index + j)) # None
  ELSE /\ get_field_definition(root, item.path) # None
       /\ get_field(root, item.path) = None

\* the entries at the positions of region agree with the document: each
\* one resolves, and every occurrence stored in the message at P and in
\* the messages shown expanded below it has exactly one entry
EntriesAgree(items, region, root, P) ==
  /\ \A i \in region : items[i].layout # "None" => Resolves(items[i], root)
  /\ \A Q \in {P} \cup {items[i].path : i \in {r \in region : items[r].layout = "Message"}} :
       LET msg == get_submessage(root, Q) IN
       msg # None =>
         \A f \in 1 .. Len(msg.fields) :
           LET id == FieldData_id(msg.fields[f])
               k == Cardinality({g \in 1 .. (f - 1) : FieldData_id(msg.fields[g]) = id})
           IN Cardinality({i \in region : Covers(items[i], Q, id, k)}) = 1

FieldOrder_next(order) ==
  IF order = "Proto" THEN "Wire" ELSE IF order = "Wire" THEN "ByName"
  ELSE IF order = "ByName" THEN "ById" ELSE "Proto"

FieldOrder_prev(order) ==
  IF order = "Proto" THEN "ById" ELSE IF order = "Wire" THEN "Proto"
  ELSE IF order = "ByName" THEN "Wire" ELSE "ByName"

\* Layouts::scroll_sibling, the loop from the selected entry: the selection
RECURSIVE scroll_sibling(_, _, _, _, _)
scroll_sibling(items, delta, sel, pos, lvl) ==
  IF pos + delta < 0 \/ pos + delta >= Len(items) THEN sel
  ELSE IF level(items[pos + delta + 1]) < lvl THEN sel
  ELSE IF level(items[pos + delta + 1]) = lvl THEN [sel EXCEPT !.layout = pos + delta, !.y = 0]
  ELSE scroll_sibling(items, delta, sel, pos + delta, lvl)

\* the commands of the navigation run leave the history of the view run
\* but for the number of data changes
NavFrame ==
  /\ hist' = [hist EXCEPT !.edits = @ + (IF app_result'.kind = "ChangeData" THEN 1 ELSE 0)]
  /\ hist'.edits <= MaxEdits
  /\ UNCHANGED <<build, varintVars, wireVars, docVars, sortVars, saveVars, indentVars, app_height, app_width, test_mode>>

\* Ctrl+Up / Ctrl+Down: App::run_command(ScrollSibling(delta)), after_event
ScrollSibling(delta) ==
  /\ Settle(app_layouts, app_data, field_order,
            IF app_selected.layout < Len(app_layouts.items)
            THEN scroll_sibling(app_layouts.items, delta, app_selected, app_selected.layout,
                                level(app_layouts.items[app_selected.layout + 1]))
            ELSE app_selected)
  /\ app_result' = CommandResult("Redraw")
  /\ UNCHANGED <<app_data, field_order>>
  /\ NavFrame

\* Ctrl+End: App::run_command(ScrollToBottom), after_event.  On an empty
\* list self.items.len() - 1 overflows, a panic of the debug build; the
\* release build wraps it and ensure_loaded reads self.items[usize::MAX - 1],
\* a panic as well
ScrollToBottom ==
  /\ IF app_layouts.items = <<>>
     THEN /\ app_result' = CommandResult("Panic")
          /\ UNCHANGED <<app_layouts, app_selected>>
     ELSE /\ \E e \in {ensure_loaded(app_layouts.items, app_data, field_order,
                                     Len(app_layouts.items) - 1, 2 * app_layouts.height + 1, 0,
                                     app_selected.layout)} :
               Settle([app_layouts EXCEPT !.items = e.items], app_data, field_order,
                      Selection(Len(e.items) - 1, e.items[Len(e.items)].height - 1, 0))
          /\ app_result' = CommandResult("Redraw")
  /\ UNCHANGED <<app_data, field_order>>
  /\ NavFrame

\* Ctrl+Home: the selection is reset
CtrlHome ==
  /\ Settle(app_layouts, app_data, field_order, Selection(0, 0, 0))
  /\ UNCHANGED <<app_data, field_order, app_result>>
  /\ NavFrame

\* F4 / Shift+F4: App::run_command(ChangeFieldOrder(order)), after_event
\* (update_layouts)
ChangeFieldOrder(order) ==
  /\ field_order' = order
  /\ Settle(update_layouts(Layouts_new(app_data, order, app_layouts.height), app_data),
            app_data, order, Selection(0, 0, 0))
  /\ app_result' = CommandResult("Redraw")
  /\ UNCHANGED app_data
  /\ NavFrame

\* the documents of the navigation run: a3 with one, two and three values
\* before, between or after c1 (M1, 14 columns), and f1, f2,
\* m3 { m6 { f8 } }, f4 (MM, 50 columns)
NavScrollSamples == {SortBytes(ids) : ids \in {<<1, 3, 1>>, <<1, 3, 3>>, <<3, 3, 3>>}}
\* Up, Down and the mouse wheel down
NavDeltas == {-1, 1, 3}
NavViewSamples == { <<8, 1, 16, 20, 26, 4, 50, 2, 64, 8, 32, 4>> }

\* the terminal height for the MM document: the window ends before m3
NavHeight == 2

\* App::new on a document of the navigation run
NavInit ==
  /\ build = "release"
  /\ VarintIdle
  /\ WireIdle
  /\ DocIdle
  /\ SortIdle
  /\ SaveIdle
  /\ IndentIdle
  /\ \/ /\ \E b \in NavScrollSamples : app_data = MessageData_new(build, b, "M1", Len(b)).value
        /\ app_height = ScrollHeight
        /\ app_width = 14
     \/ /\ \E b \in NavViewSamples : app_data = MessageData_new(build, b, "MM", Len(b)).value
        /\ app_height = NavHeight
        /\ app_width = ViewWidth
  /\ test_mode = FALSE
  /\ field_order \in ViewOrders
  /\ \E made \in {Layouts_new(app_data, field_order, app_height - TOP_LINE)} :
       \E e \in {ensure_loaded(made.items, app_data, field_order, 0, 0, app_height, 0)} :
         \E out \in {App_update([made EXCEPT !.items = e.items], app_data, field_order,
                                Selection(0, 0, 0), app_height)} :
           /\ app_layouts = out.lay
           /\ app_selected = out.sel
  /\ hist = [edits |-> 0, within |-> {}, collapsed |-> {}, phase |-> 0, saved |-> <<>>, at |-> 0]
  /\ app_result = CommandResult("None")

\* the run goes on while the application runs and the cursor line is
\* within the bound
NavRunning ==
  /\ Running
  /\ app_selected.y >= -MaxCursorY
  /\ app_selected.y <= MaxCursorY

NavScroll == NavRunning /\ UNCHANGED hist /\ \E delta \in NavDeltas : ScrollVerticallyStep(delta)

NavToggle == NavRunning /\ UNCHANGED hist /\ CollapsedToggleStep

NavSibling == NavRunning /\ \E delta \in {-1, 1} : ScrollSibling(delta)

NavBottom == NavRunning /\ ScrollToBottom

NavHome == NavRunning /\ CtrlHome

NavOrder ==
  /\ NavRunning
  /\ \E order \in {FieldOrder_next(field_order), FieldOrder_prev(field_order)} :
       ChangeFieldOrder(order)

NavCommand ==
  /\ NavRunning
  /\ \E command \in {ScrollHorizontallyCmd(-1), ScrollHorizontallyCmd(1),
                     DeleteDataCmd(FALSE), InsertDataCmd} : Dispatch(command)
  /\ NavFrame

NavNext ==
  \/ NavScroll
  \/ NavToggle
  \/ NavSibling
  \/ NavBottom
  \/ NavHome
  \/ NavOrder
  \/ NavCommand

SpecNav == NavInit /\ [][NavNext]_vars

\* --------------------------------------------------------------- C24
\* C24: after every command followed by after_event the selection is valid:
\* selected.layout is below the number of entries (0 on an empty list) and
\* selected.y is a line of the selected entry, below its height
SelectionValid ==
  /\ IF app_layouts.items = <<>> THEN app_selected.layout = 0
     ELSE app_selected.layout >= 0 /\ app_selected.layout < Len(app_layouts.items)
  /\ app_layouts.items # <<>> =>
       /\ app_selected.y >= 0
       /\ app_selected.y < app_layouts.items[app_selected.layout + 1].height

\* the part of it about insert and delete alone: a data change made with a
\* valid selection leaves the selection valid
DataChangeKeepsSelection ==
  [][(SelectionValid /\ app_result'.kind = "ChangeData") => SelectionValid']_vars

\* a data change (a delete that re-wraps a repeated field to fewer lines)
\* has left the cursor on a line the selected entry no longer has
CursorBelowEntry ==
  /\ app_result.kind = "ChangeData"
  /\ hist.edits = 1
  /\ app_layouts.items # <<>>
  /\ app_selected.layout < Len(app_layouts.items)
  /\ app_selected.y >= app_layouts.items[app_selected.layout + 1].height

\* --------------------------------------------------------------- C25
\* the entry the selection is on after ensure_loaded(layout_index, before,
\* after) has the path of the entry it was on before
KeepsField(layout_index, lines_before, lines_after) ==
  \E e \in {ensure_loaded(app_layouts.items, app_data, field_order, layout_index,
                          lines_before, lines_after, app_selected.layout)} :
    /\ e.layout < Len(e.items)
    /\ e.items[e.layout + 1].path = app_layouts.items[app_selected.layout + 1].path

\* C25: ensure_loaded never changes which field the cursor is on: with the
\* arguments of every scroll (App::run_command) the path of the selected
\* entry is the same before and after the call
EnsureLoadedKeepsField ==
  app_selected.layout < Len(app_layouts.items) =>
    \A delta \in ScrollDeltas :
      KeepsField(app_selected.layout,
                 IF delta < 0 THEN (-delta) + 1 + app_height ELSE 0,
                 IF delta < 0 THEN 0 ELSE delta + 1)

\* --------------------------------------------------------------- C26
\* the lines of the entries first .. last of a list (positions from 1)
RECURSIVE LinesOf(_, _, _)
LinesOf(items, first, last) ==
  IF first > last THEN 0 ELSE items[first].height + LinesOf(items, first + 1, last)

\* the entry at index, every entry that starts within lines_after lines from
\* it and every entry that ends within lines_before lines before it is loaded
LoadedAround(items, index, lines_before, lines_after) ==
  /\ \A k \in (index + 1) .. Len(items) :
       (k = index + 1 \/ LinesOf(items, index + 1, k - 1) < lines_after)
         => items[k].layout # "None"
  /\ \A k \in 1 .. index :
       LinesOf(items, k + 1, index) < lines_before => items[k].layout # "None"

\* ensure_loaded(layout_index, lines_before, lines_after) loads the entries
\* around the entry that was at layout_index
EnsureLoads(layout_index, lines_before, lines_after) ==
  \E e \in {ensure_loaded(app_layouts.items, app_data, field_order, layout_index,
                          lines_before, lines_after, app_selected.layout)} :
    LoadedAround(e.items,
                 layout_index + Len(e.items)
                   - Len(ensure_loaded_after(app_layouts.items, app_data, field_order,
                                             layout_index, lines_after)),
                 lines_before, lines_after)

\* the assertion of the scroll loop of Layouts::run_command holds after the
\* ensure_loaded of App::run_command(ScrollVertically(delta))
ScrollAsserts(delta) ==
  \E e \in {ensure_loaded(app_layouts.items, app_data, field_order, app_selected.layout,
                          IF delta < 0 THEN (-delta) + 1 + app_height ELSE 0,
                          IF delta < 0 THEN 0 ELSE delta + 1, app_selected.layout)} :
    scroll_asserts(e.items, [app_selected EXCEPT !.layout = e.layout], delta, FALSE)

RECURSIVE WithoutBelow(_, _, _, _)
WithoutBelow(items, path, pos, k) ==
  IF k > Len(items) THEN <<>>
  ELSE IF k = pos + 1
  THEN <<LayoutParams(items[k].path, items[k].amount, "Collapsed")>>
         \o WithoutBelow(items, path, pos, k + 1)
  ELSE IF k > pos + 1 /\ Below(items[k].path, path) THEN WithoutBelow(items, path, pos, k + 1)
  ELSE <<items[k]>> \o WithoutBelow(items, path, pos, k + 1)

EditOnlySelected ==
  \A k \in 1 .. Len(app_layouts.items) :
    app_layouts.items[k].edit # None => k = app_selected.layout + 1

\* ----------------------------------------------------------------- C29
\* the selected entry is a string entry
StringSelected ==
  /\ app_selected.layout < Len(app_layouts.items)
  /\ app_layouts.items[app_selected.layout + 1].layout = "Str"

\* what a command does to the selected string entry cur, whose field is
\* field, with the entries after the command
StringModes(command, cur, field, after) ==
  /\ cur.edit = None =>
       /\ (command.type = "Exit") <=> (app_result'.kind = "Exit")
       /\ IF command.type = "ScrollHorizontally" /\ command.delta > 0 /\ field # None
          THEN /\ app_result'.kind = "Redraw"
               /\ after = [app_layouts.items EXCEPT ![app_selected.layout + 1].edit =
                                                      TextEditor_new(field.value.bytes)]
          ELSE app_result'.kind # "ChangeData"
                 => after = app_layouts.items
  /\ cur.edit # None =>
       /\ app_result'.kind # "Exit"
       /\ command.type = "Exit" =>
            /\ app_result'.kind = "ChangeData"
            /\ app_data' = apply(app_data, Overwrite(cur.path, STR(cur.edit.text))).msg
            /\ \A k \in 1 .. Len(after) : after[k].path = cur.path => after[k].edit = None

\* C29: a string entry stays in view mode until a ScrollHorizontally with a
\* positive delta on an existing field, which opens the editor on the
\* field's value; with the editor open Exit never ends the application, it
\* closes the editor and overwrites the entry's field with the editor's
\* text; with the editor closed Exit, and only Exit, gives the Exit result
StringEditModes ==
  [][\A command \in EditCommands :
       (StringSelected /\ Command(command))
         => StringModes(command, app_layouts.items[app_selected.layout + 1],
                        get_field(app_data, app_layouts.items[app_selected.layout + 1].path),
                        app_layouts'.items)]_vars

\* the text typed into the editor of s1 has been written to the document
\* and the entry is back in view mode
StringEditModesWitness ==
  /\ StringSelected
  /\ app_result.kind = "ChangeData"
  /\ app_layouts.items[app_selected.layout + 1].edit = None
  /\ \E field \in {get_field(app_data, app_layouts.items[app_selected.layout + 1].path)} :
       /\ field # None
       /\ field.value = STR(<<49>>)

\* ----------------------------------------------------------------- C30
\* the characters next to and at the ends of '0'..'9', 'A'..'F', 'a'..'f'
ByteChars == {47, 48, 57, 58, 64, 65, 70, 71, 96, 97, 102, 103}

\* the hexadecimal digits in order of their value, in lower and upper case
LowerHex == <<48, 49, 50, 51, 52, 53, 54, 55, 56, 57, 97, 98, 99, 100, 101, 102>>
UpperHex == <<48, 49, 50, 51, 52, 53, 54, 55, 56, 57, 65, 66, 67, 68, 69, 70>>

\* the value of the character c as a hexadecimal digit, {} when it is none
HexValue(c) == {v \in 0 .. 15 : LowerHex[v + 1] = c \/ UpperHex[v + 1] = c}

\* ByteEditor::on_char on the editor edit with a character whose value as a
\* hexadecimal digit is hex, out being the editor and the byte it gives
OnCharCase(edit, hex, out) ==
  IF edit.first_nibble = {}
  THEN /\ out.byte = {}
       /\ out.edit = [edit EXCEPT !.first_nibble = hex]
  ELSE IF hex = {}
  THEN /\ out.byte = {}
       /\ out.edit = edit
  ELSE /\ out.byte = {((16 * high) + low) % 256 : high \in edit.first_nibble, low \in hex}
       /\ out.edit = [edit EXCEPT !.pos = @ + 1, !.first_nibble = {}]

\* the cases of on_char with every first nibble and the characters of
\* ByteChars, for an editor standing at pos
OnCharCases(pos) ==
  \A ch \in ByteChars : \E hex \in {HexValue(ch)} :
    \A first_nibble \in {{}} \cup {{high} : high \in 0 .. 15} :
      \E edit \in {[kind |-> "Byte", pos |-> pos, first_nibble |-> first_nibble]} :
        \E out \in {ByteEditor_on_char(edit, ch)} : OnCharCase(edit, hex, out)

\* the selected entry is a bytes entry with its editor open
BytesEditing ==
  /\ app_selected.layout < Len(app_layouts.items)
  /\ app_layouts.items[app_selected.layout + 1].layout = "Bytes"
  /\ app_layouts.items[app_selected.layout + 1].edit # None

\* a character typed into the editor of the selected bytes entry cur, whose
\* field is field: the editor with every character and every first nibble,
\* and what the application shows of the call
ByteTyped(c, cur, field, after) ==
  /\ OnCharCases(cur.edit.pos)
  /\ IF cur.edit.first_nibble = {} \/ HexValue(c) = {}
     THEN /\ app_result'.kind = "Redraw"
          /\ app_data' = app_data
          /\ after = [app_layouts.items EXCEPT ![app_selected.layout + 1].edit =
                        IF cur.edit.first_nibble = {}
                        THEN [cur.edit EXCEPT !.first_nibble = HexValue(c)] ELSE cur.edit]
     ELSE (field # None /\ field.value.kind = "BYTES") =>
            /\ app_result'.kind = "ChangeData"
            /\ \E high \in cur.edit.first_nibble : \E low \in HexValue(c) :
                 app_data' = apply(app_data, Overwrite(cur.path, BYTES(
                               IF cur.edit.pos < Len(field.value.bytes)
                               THEN [field.value.bytes EXCEPT ![cur.edit.pos + 1] = (16 * high) + low]
                               ELSE Append(field.value.bytes, (16 * high) + low)))).msg

\* C30: the byte editor gives a byte on the second of two hexadecimal
\* characters only: with no nibble entered a hexadecimal character is kept
\* as the high nibble and no byte is given; with a nibble entered a
\* hexadecimal character gives (high << 4) + low, moves the position one
\* byte on and clears the nibble; any other character gives no byte and
\* leaves the nibble and the position as they are
ByteEditorNibbles ==
  [][\A c \in EditKeys :
       (BytesEditing /\ Command(KeyPress(c)))
         => ByteTyped(c, app_layouts.items[app_selected.layout + 1],
                      get_field(app_data, app_layouts.items[app_selected.layout + 1].path),
                      app_layouts'.items)]_vars

\* the byte 0x11 typed as '1', '1' has been written to b2
ByteEditorNibblesWitness ==
  /\ app_result.kind = "ChangeData"
  /\ app_selected.layout < Len(app_layouts.items)
  /\ app_layouts.items[app_selected.layout + 1].layout = "Bytes"
  /\ \E field \in {get_field(app_data, app_layouts.items[app_selected.layout + 1].path)} :
       /\ field # None
       /\ field.value = BYTES(<<17>>)

\* ----------------------------------------------------------------- C31
\* the field of the selected entry is declared non-repeated and has an
\* occurrence
SingleFieldSelected ==
  /\ app_selected.layout < Len(app_layouts.items)
  /\ \E path \in {app_layouts.items[app_selected.layout + 1].path} :
       \E def \in {get_field_definition(app_data, path)} :
         /\ def # None
         /\ ~def.repeated
         /\ get_field(app_data, path) # None

\* C31: InsertData on an entry whose non-repeated field already has an
\* occurrence leaves the document unchanged, so no command gives such a
\* field a second occurrence
InsertKeepsSingle ==
  [][(SingleFieldSelected /\ Command(InsertDataCmd)) => app_data' = app_data]_vars

\* ----------------------------------------------------------------- C32
\* the declaration and the value of every field of a list, in order
Values(flds) == [i \in 1 .. Len(flds) |-> [def |-> flds[i].def, value |-> flds[i].value]]

\* the input is the packed tag of f2 (12), a payload length n that the
\* input holds, and more bytes
PackedFirst(n) ==
  /\ Len(input) >= 2
  /\ input[1] = 18
  /\ input[2] = n
  /\ n < 128
  /\ n + 2 <= Len(input)

\* the values a packed payload of f2 holds, read by itself
PayloadRead(n) ==
  read_packed(build, proto_get_field(RootMessage, 2),
              [src |-> SubSeq(input, 3, n + 2), pos |-> 0], n, n, <<>>)

\* the bytes after the payload, decoded by themselves as fields of the root
FollowingRead(n) ==
  MessageData_new(build, SubSeq(input, n + 3, Len(input)), RootMessage, Len(input) - (n + 2))

\* C32: a packed repeated field gives exactly the values inside its
\* declared payload length, and the bytes after the payload are decoded as
\* the next fields of the enclosing message
PackedWithinLength ==
  \A n \in 0 .. MaxWireLen :
    (wpc = "decoded" /\ PackedFirst(n) /\ PayloadRead(n).res = "ok" /\ FollowingRead(n).res = "ok")
      => /\ dec.res = "ok"
         /\ Values(dec.value.fields)
              = Values(PayloadRead(n).value) \o Values(FollowingRead(n).value.fields)

\* ----------------------------------------------------------------- C33
\* a successful decode ends with the budget 0 and every byte of the budget
\* read
BudgetUsedUp == (wpc = "decoded" /\ dec.res = "ok") => (dec.limit = 0 /\ dec.rd.pos = Len(input))

\* no subtraction took the budget below zero: a debug build panics on it, a
\* release build goes on with the wrapped budget
BudgetNoUnderflow == wpc = "decoded" => (dec.res # "panic" /\ dec.limit >= 0)

\* C33: decoding ends with the budget exactly 0 and as many bytes read as
\* the budget held, and no step takes the budget below zero, so that a
\* nested message takes its fields from inside its declared length only
BudgetExact == BudgetUsedUp /\ BudgetNoUnderflow

\* ----------------------------------------------------------------- C34
\* the entries of a get_sorted_fields list that cover the i-th stored field
\* of sdata: its number, and its occurrence index within the entry's range
Covering(list, i) ==
  {k \in 1 .. Len(list) :
     /\ list[k].pos.id = StoredIds[i]
     /\ \E index \in {Cardinality({j \in 1 .. (i - 1) : StoredIds[j] = StoredIds[i]})} :
          /\ list[k].pos.index <= index
          /\ index < list[k].pos.index + list[k].amount}

\* C34: in every field order each stored occurrence, the UNKNOWN ones
\* included, is covered by exactly one (position, count) entry of
\* get_sorted_fields
EveryFieldCovered ==
  \A order \in FieldOrder :
    sres[order].asked =>
      \A i \in 1 .. Len(StoredIds) : Cardinality(Covering(sres[order].list, i)) = 1

\* ------------------------------------------------- the indentation run
MaxLabel == 8   \* longest first column handed to IndentsCalc::add
MaxLevel == 3   \* deepest nesting level handed to IndentsCalc::add

\* IndentsCalc::add, the while loop: levels are pushed until level exists
RECURSIVE push_levels(_, _)
push_levels(indents, lvl) ==
  IF Len(indents) >= lvl THEN indents
  ELSE push_levels(Append(indents,
                          NEXT_LEVEL_INDENT + (IF indents = <<>> THEN 0
                                               ELSE indents[Len(indents)])),
                   lvl)

\* IndentsCalc::add for lvl >= 1: the table after the call and the column
\* returned (u16 arithmetic)
IndentsCalc_add(indents, first_column_width, lvl) ==
  With(push_levels(indents, lvl), LAMBDA pushed :
    With((MARGIN_LEFT + (first_column_width % 65536)) % 65536, LAMBDA new_width :
      IF pushed[lvl] < new_width
      THEN [level_indents |-> [i \in 1 .. Len(pushed) |->
                                 IF i < lvl THEN pushed[i]
                                 ELSE (new_width + NEXT_LEVEL_INDENT * (i - lvl)) % 65536],
            indent |-> new_width]
      ELSE [level_indents |-> pushed, indent |-> pushed[lvl]]))

\* one layout pass: IndentsCalc::new() and the calls of add that the
\* entries' calc_sizes make
IndentInit ==
  /\ build \in {"debug", "release"}
  /\ VarintIdle
  /\ WireIdle
  /\ DocIdle
  /\ SortIdle
  /\ SaveIdle
  /\ ViewIdle
  /\ level_indents = <<>>

IndentAdd(first_column_width, lvl) ==
  /\ level_indents' = IndentsCalc_add(level_indents, first_column_width, lvl).level_indents
  /\ UNCHANGED <<build, varintVars, wireVars, docVars, sortVars, saveVars, viewVars>>

IndentNext == \E first_column_width \in 0 .. MaxLabel : \E lvl \in 1 .. MaxLevel :
                IndentAdd(first_column_width, lvl)

SpecIndent == IndentInit /\ [][IndentNext]_vars

\* ----------------------------------------------------------------- C35
\* what the claim says of one call add(first_column_width, lvl)
AddGrows(first_column_width, lvl) ==
  /\ \A k \in 1 .. Len(level_indents) : level_indents'[k] >= level_indents[k]
  /\ level_indents'[lvl] >= MARGIN_LEFT + first_column_width
  /\ \A k \in (lvl + 1) .. Len(level_indents') :
       level_indents'[k] >= level_indents'[k - 1] + NEXT_LEVEL_INDENT

\* C35: within one layout pass no call of IndentsCalc::add lowers the column
\* of any level; after add(w, L) the column of L is at least margin + w and
\* every deeper level of the table is at least 2 columns past its parent
IndentsNeverLowered ==
  [][\A first_column_width \in 0 .. MaxLabel : \A lvl \in 1 .. MaxLevel :
       IndentAdd(first_column_width, lvl) => AddGrows(first_column_width, lvl)]_vars

\* ------------------------------------------------------- the table run
\* App::for_tests on a document of MI, the scroll, toggle, insert and delete
\* events, and Layouts.indents, the table every pass continues from.  The
\* values of MI are single small numbers: every entry takes one line
\* whatever the table is.
MaxTableEdits == 2   \* inserts and deletes of one run
TableHeight == 25    \* the terminal height App::for_tests is called with

\* a1; a1, wide5; a1, mj { b1 }; a1, mj { b1, deeper }; wide5, mj { deeper }
TableSamples ==
  { <<8, 1>>,
    <<8, 1, 16, 2>>,
    <<8, 1, 26, 2, 8, 3>>,
    <<8, 1, 26, 4, 8, 3, 16, 4>>,
    <<16, 2, 26, 2, 16, 4>> }

\* In(value) with value worked out before In is
First(value, In(_)) == CHOOSE result \in {In(v) : v \in {value}} : TRUE

\* format!("{:x}", n).len()
RECURSIVE hex_len(_)
hex_len(n) == IF n < 16 THEN 1 ELSE 1 + hex_len(n \div 16)

\* the first_column_width calc_sizes of one entry hands to IndentsCalc::add,
\* -1 when it does not call it.  (StringLayout adds the length of the line
\* count as well when it is longer than the column; a text here has one
\* line, the column is 2 or more.)
first_column(item, root) ==
  With(get_field(root, item.path), LAMBDA field :
    With(get_field_definition(root, item.path), LAMBDA def :
      IF item.layout = "None" THEN -1
      ELSE IF item.layout = "Bytes"
      THEN With(IF field # None /\ field.value.kind = "BYTES" THEN Len(field.def.name)
                ELSE IF def # None THEN Len(def.name) ELSE 0, LAMBDA name_len :
             With(IF field # None /\ field.value.kind = "BYTES"
                  THEN hex_len(Len(field.value.bytes)) ELSE 0, LAMBDA address_len :
               IF address_len > name_len THEN address_len ELSE name_len))
      ELSE IF item.layout = "Str" /\ field # None /\ field.value.kind = "STR"
      THEN Len(field.def.name)
      ELSE IF def # None THEN Len(def.name)
      ELSE -1))

\* calc_sizes of one entry: the table after it
add_label(table, item, root) ==
  IF first_column(item, root) < 0 THEN table
  ELSE IndentsCalc_add(table, first_column(item, root), level(item)).level_indents

\* calc_sizes of the entries of a list, first to last
RECURSIVE add_labels(_, _, _)
add_labels(indents, items, root) ==
  IF Len(items) = 0 THEN indents
  ELSE First(add_label(indents, items[1], root),
             LAMBDA added : add_labels(added, SubSeq(items, 2, Len(items)), root))

\* calc_sizes in the loops that pop the new entries off the end of the list
add_popped(indents, layouts, root) ==
  add_labels(indents, [k \in 1 .. Len(layouts) |-> layouts[Len(layouts) + 1 - k]], root)

\* Layouts::expand_collapsed: the table it leaves
expand_collapsed_indents(items, indents, root, order, pos) ==
  IF pos >= Len(items) THEN indents
  ELSE With(expand_collapsed(items, root, order, pos), LAMBDA e :
         add_popped(indents, SubSeq(e.items, pos + 1, pos + e.count), root))

\* Layouts::ensure_loaded, the first loop: the table it leaves
RECURSIVE ensure_loaded_after_indents(_, _, _, _, _, _)
ensure_loaded_after_indents(items, indents, root, order, i, remain) ==
  IF i >= Len(items) THEN indents
  ELSE IF items[i + 1].layout # "None"
  THEN With(calc_sizes(items[i + 1], root), LAMBDA item :
         With(add_label(indents, items[i + 1], root), LAMBDA added :
           IF remain - item.height <= 0 THEN added
           ELSE ensure_loaded_after_indents([items EXCEPT ![i + 1] = item], added, root, order,
                                            i + 1, remain - item.height)))
  ELSE With(expand_collapsed(items, root, order, i), LAMBDA e :
         With(expand_collapsed_indents(items, indents, root, order, i), LAMBDA added :
           IF remain - e.lines <= 0 THEN added
           ELSE ensure_loaded_after_indents(e.items, added, root, order, i + e.count,
                                            remain - e.lines)))

\* Layouts::ensure_loaded, the second loop: the table it leaves
RECURSIVE ensure_loaded_before_indents(_, _, _, _, _, _)
ensure_loaded_before_indents(items, indents, root, order, i, remain) ==
  IF i <= 0 THEN indents
  ELSE IF items[i].layout # "None"
  THEN With(calc_sizes(items[i], root), LAMBDA item :
         With(add_label(indents, items[i], root), LAMBDA added :
           IF remain - item.height <= 0 THEN added
           ELSE ensure_loaded_before_indents([items EXCEPT ![i] = item], added, root, order,
                                             i - 1, remain - item.height)))
  ELSE With(expand_collapsed(items, root, order, i - 1), LAMBDA e :
         With(expand_collapsed_indents(items, indents, root, order, i - 1), LAMBDA added :
           IF remain - e.lines <= 0 THEN added
           ELSE ensure_loaded_before_indents(e.items, added, root, order, i - 1,
                                             remain - e.lines)))

\* Layouts::ensure_loaded: the table it leaves
ensure_loaded_indents(items, indents, root, order, layout_index, lines_before, lines_after) ==
  ensure_loaded_before_indents(
    ensure_loaded_after(items, root, order, layout_index, lines_after),
    ensure_loaded_after_indents(items, indents, root, order, layout_index, lines_after),
    root, order, layout_index, lines_before)

\* Layouts::update_after_data_changed: the table it leaves
update_after_data_changed_indents(lay, indents, root, order, changed_layout) ==
  With(get_parent_pos(lay.items, changed_layout), LAMBDA parent_pos :
    IF parent_pos # -1
    THEN With(lay.items[parent_pos + 1], LAMBDA parent :
           IF get_submessage(root, parent.path) # None
           THEN add_popped(indents, create_message_layouts(root, order, parent.path, 1, TRUE),
                           root)
           ELSE indents)
    ELSE add_labels(indents, root_layouts(root, order, TRUE), root))

\* App::after_event, the update_layouts pass that need_update_layout_height
\* asks for: the table it leaves
after_event_indents(need_update_layout_height, indents, items, root) ==
  IF need_update_layout_height THEN add_labels(indents, items, root) ELSE indents

\* App::for_tests
TableInit ==
  /\ build = "release"
  /\ VarintIdle
  /\ WireIdle
  /\ DocIdle
  /\ SortIdle
  /\ SaveIdle
  /\ \E b \in TableSamples : app_data = MessageData_new(build, b, "MI", Len(b)).value
  /\ field_order \in ViewOrders
  /\ app_height = TableHeight
  /\ app_width = ViewWidth
  /\ test_mode = TRUE
  /\ \E made \in {Layouts_new(app_data, field_order, app_height - TOP_LINE)} :
       /\ app_layouts = [made EXCEPT !.items =
                           ensure_loaded(made.items, app_data, field_order, 0, 0, app_height, 0).items]
       /\ level_indents = ensure_loaded_indents(made.items, add_labels(<<>>, made.items, app_data),
                                                app_data, field_order, 0, 0, app_height)
  /\ hist = [edits |-> 0, need_update_layout_height |-> TRUE, changed |-> FALSE]
  /\ app_selected = Selection(0, 0, 0)
  /\ app_result = CommandResult("None")

\* App::run_command(ScrollVertically(delta)), after_command, after_event
TableScroll(delta) ==
  /\ \E e \in {ensure_loaded(app_layouts.items, app_data, field_order, app_selected.layout,
                             IF delta < 0 THEN (-delta) + 1 + app_height ELSE 0,
                             IF delta < 0 THEN 0 ELSE delta + 1,
                             app_selected.layout)} :
       /\ Settle([app_layouts EXCEPT !.items = e.items], app_data, field_order,
                 scroll_vertically(e.items, [app_selected EXCEPT !.layout = e.layout],
                                   delta, delta, FALSE))
       /\ level_indents' =
            after_event_indents(hist.need_update_layout_height,
              ensure_loaded_indents(app_layouts.items, level_indents, app_data, field_order,
                                    app_selected.layout,
                                    IF delta < 0 THEN (-delta) + 1 + app_height ELSE 0,
                                    IF delta < 0 THEN 0 ELSE delta + 1),
              e.items, app_data)
  /\ app_result' = CommandResult("Redraw")
  /\ hist' = [hist EXCEPT !.need_update_layout_height = FALSE, !.changed = FALSE]
  /\ UNCHANGED <<build, varintVars, wireVars, docVars, sortVars, saveVars, app_data, field_order,
                 app_height, app_width, test_mode>>

\* App::run_command(CollapsedToggle), after_command, after_event
TableToggle ==
  /\ app_selected.layout < Len(app_layouts.items)
  /\ \E items \in {collapsed_toggle(app_layouts.items, app_data, field_order, app_selected)} :
       /\ Settle([app_layouts EXCEPT !.items = items], app_data, field_order, app_selected)
       /\ level_indents' =
            after_event_indents(hist.need_update_layout_height,
              IF app_layouts.items[app_selected.layout + 1].layout = "Collapsed"
              THEN expand_collapsed_indents(app_layouts.items, level_indents, app_data,
                                            field_order, app_selected.layout)
              ELSE level_indents,
              items, app_data)
       /\ hist' = [hist EXCEPT !.need_update_layout_height = FALSE,
                               !.changed = (items # app_layouts.items)]
  /\ app_result' = CommandResult("Redraw")
  /\ UNCHANGED <<build, varintVars, wireVars, docVars, sortVars, saveVars, app_data, field_order,
                 app_height, app_width, test_mode>>

\* App::run_command(InsertData) and (DeleteData(false)) with the cursor on
\* the field name, after_command (apply, update_after_data_changed),
\* after_event (update_layouts)
TableChange(command) ==
  /\ hist.edits < MaxTableEdits
  /\ \E change \in {change_data(command, app_layouts.items, app_data, app_selected)} \ {None} :
       /\ app_data' = apply(app_data, change).msg
       /\ \E lay \in {update_after_data_changed(app_layouts, app_data', field_order,
                                                app_selected.layout)} :
            /\ Settle(update_layouts(lay, app_data'), app_data', field_order, app_selected)
            /\ level_indents' =
                 after_event_indents(TRUE,
                   update_after_data_changed_indents(app_layouts, level_indents, app_data',
                                                     field_order, app_selected.layout),
                   lay.items, app_data')
  /\ app_result' = CommandResult("ChangeData")
  /\ hist' = [hist EXCEPT !.edits = @ + 1, !.need_update_layout_height = FALSE,
                          !.changed = TRUE]
  /\ UNCHANGED <<build, varintVars, wireVars, docVars, sortVars, saveVars, field_order, app_height,
                 app_width, test_mode>>

TableNext ==
  \/ \E delta \in {-1, 1} : TableScroll(delta)
  \/ TableToggle
  \/ \E command \in {"InsertData", "DeleteData"} : TableChange(command)

SpecTable == TableInit /\ [][TableNext]_vars

\* ----------------------------------------------------------------- C36
\* the table a pass that starts from empty gives the loaded entries
Rebuilt == add_labels(<<>>, app_layouts.items, app_data)

\* C36: after an insert or delete of a field and after a collapse or expand
\* that changed the entry list, the indentation table is the table obtained
\* from the empty table by adding the labels of the loaded entries
TableRebuilt == hist.changed => level_indents = Rebuilt

\* ----------------------------------------------------------------- C37
\* the lines of the window (self.height - TOP_LINE)
Viewport == app_height - TOP_LINE

\* the line the cursor is on is one of the lines the window shows
CursorVisible(lay, sel) ==
  /\ ~usize_lt(CursorLine(lay.items, sel), lay.scroll)
  /\ usize_lt(CursorLine(lay.items, sel), lay.scroll + Viewport)

\* the offset an event may leave: the old one while the cursor line is in
\* the window at it, else the nearest one that shows the cursor line
NearestOffset(scroll, line) ==
  IF usize_lt(line, scroll) THEN line
  ELSE IF usize_lt(line, scroll + Viewport) THEN scroll
  ELSE line + 1 - Viewport

\* one event: the window shows the cursor line and has moved no further
\* than that takes
ScrollFollows ==
  /\ CursorVisible(app_layouts', app_selected')
  /\ app_layouts'.scroll =
       NearestOffset(app_layouts.scroll, CursorLine(app_layouts'.items, app_selected'))

\* C37: after every event the window offset keeps the cursor line visible,
\* scroll <= cursor line < scroll + viewport height, and the offset changes
\* only when the cursor line would otherwise be outside the window, by the
\* smallest amount that brings it back
WindowFollowsCursor == [][ScrollFollows]_vars

\* ------------------------------------------------------- the empty run
\* App::for_tests and App::new on documents of no field and of one field,
\* which a delete in Wire order leaves with no entry
EmptySamples == { <<>>, <<8, 11>>, <<24, 10>> }

EmptyInit ==
  /\ build \in {"debug", "release"}
  /\ VarintIdle
  /\ WireIdle
  /\ DocIdle
  /\ SortIdle
  /\ SaveIdle
  /\ IndentIdle
  /\ \E b \in EmptySamples : app_data = MessageData_new(build, b, "M1", Len(b)).value
  /\ app_height \in {NavHeight, ScrollHeight}
  /\ app_width = 14
  /\ test_mode \in BOOLEAN
  /\ field_order \in ViewOrders
  /\ \E made \in {Layouts_new(app_data, field_order, app_height - TOP_LINE)} :
       \E e \in {ensure_loaded(made.items, app_data, field_order, 0, 0, app_height, 0)} :
         \E out \in {IF test_mode
                     THEN [lay |-> [made EXCEPT !.items = e.items], sel |-> Selection(0, 0, 0)]
                     ELSE App_update([made EXCEPT !.items = e.items], app_data, field_order,
                                     Selection(0, 0, 0), app_height)} :
           /\ app_layouts = out.lay
           /\ app_selected = out.sel
  /\ hist = [edits |-> 0, within |-> {}, collapsed |-> {}, phase |-> 0, saved |-> <<>>, at |-> 0]
  /\ app_result = CommandResult("None")

EmptyNext ==
  \/ NavScroll
  \/ NavToggle
  \/ NavSibling
  \/ NavBottom
  \/ NavCommand

SpecEmpty == EmptyInit /\ [][EmptyNext]_vars

\* ----------------------------------------------------------------- C38
\* C38: on an empty entry list every cursor or edit command (ScrollVertically,
\* ScrollSibling, ScrollToBottom, InsertData, DeleteData, CollapsedToggle)
\* completes without failure, and leaves the list empty and the selection at
\* entry 0, line 0
EmptyListSafe ==
  [][app_layouts.items = <<>> =>
       /\ app_result'.kind # "Panic"
       /\ app_layouts'.items = <<>>
       /\ app_selected'.layout = 0
       /\ app_selected'.y = 0]_vars

\* ----------------------------------------------------------------- C39
\* a sum of sizes; -1 stands for a size whose computation panics
size_add(a, b) == IF a < 0 \/ b < 0 THEN -1 ELSE a + b

\* ScalarValue::varint_size, -1 for its todo!() and panic!() exits
size_of_varint(value) == IF varint_size(value) = 0 THEN -1 ELSE varint_size(value)

\* ScalarValue::len
ScalarValue_len(scalar) ==
  IF scalar.kind = "BOOL" THEN 1
  ELSE IF scalar.kind = "I32" THEN size_of_varint(SignExtend32(scalar.bits))
  ELSE IF scalar.kind \in {"STR", "BYTES"} THEN Len(scalar.bytes)
  ELSE size_add(size_of_varint(SignExtend32(scalar.tag.first_number)), Len(scalar.bytes))

\* FieldData::len and MessageData::len
RECURSIVE MessageData_len(_)
FieldData_len(field) ==
  size_add(size_of_varint(IntBits(field.def.id * 8)),
           IF field.value.kind = "MESSAGE" THEN MessageData_len(field.value)
           ELSE ScalarValue_len(field.value))

RECURSIVE fields_len(_, _)
fields_len(fields, acc) ==
  IF fields = <<>> THEN acc
  ELSE fields_len(Tail(fields), size_add(acc, FieldData_len(Head(fields))))

MessageData_len(msg) == fields_len(msg.fields, 0)

\* CollapsedLayout.display_size of the message entry that CollapsedToggle
\* collapses
display_size(msg) == MessageData_len(msg)

\* C39: for every decoded document MessageData::len() is the number of bytes
\* MessageData::write emits for it, and the size a Collapsed entry shows for
\* a nested message is the number of bytes that message is written with
LenIsWrittenSize ==
  wpc = "written" =>
    /\ MessageData_len(dec.value) = Len(output)
    /\ \A i \in 1 .. Len(dec.value.fields) :
         dec.value.fields[i].value.kind = "MESSAGE" =>
           display_size(dec.value.fields[i].value)
             = Len(MessageData_write(dec.value.fields[i].value))

\* -------------------------------------------------------- the save run
\* main opens the file named on the command line, App::new keeps its path in
\* Layouts.file_path; F2 runs Exit (no editor is open: the result is dropped)
\* and then Layouts::save_document.  The document changes between saves by
\* MessageData::apply of a Delete.
MaxSaves == 2         \* saves of one run
MaxSaveEdits == 2     \* deletes of one run

\* a file name: its stem and its extension ("" for none)
Path(stem, ext) == [stem |-> stem, ext |-> ext]

\* PathBuf::set_extension: the extension is replaced, or added if there is none
set_extension(path, ext) == [path EXCEPT !.ext = ext]

\* the names the file can be given on the command line
SavePaths == {Path("data", "pb"), Path("data", ""), Path("data", "tmp")}

DiskPaths == SavePaths \cup {set_extension(p, "tmp") : p \in SavePaths}

NoFile == [exists |-> FALSE, bytes |-> <<>>]
FileOf(bytes) == [exists |-> TRUE, bytes |-> bytes]

\* the files opened: the empty file, 08 01 10 14, and
\* 08 01 10 14 1A 02 28 05 22 01 61
SaveSamples == {<<>>, <<8, 1, 16, 20>>, <<8, 1, 16, 20, 26, 2, 40, 5, 34, 1, 97>>}

\* std::fs::rename: `to` is replaced by `from` in one step; renaming a file
\* to itself does nothing
fs_rename(files, from, to) ==
  IF from = to THEN files
  ELSE [files EXCEPT ![to] = files[from], ![from] = NoFile]

SaveInit ==
  /\ build = "release"
  /\ VarintIdle
  /\ SortIdle
  /\ IndentIdle
  /\ ViewIdle
  /\ wpc = "decoded"
  /\ input \in SaveSamples
  /\ dec = MessageData_new(build, input, RootMessage, Len(input))
  /\ output = <<>>
  /\ doc = dec.value
  /\ call = NoCall /\ results = <<>> /\ run = NoRun
  /\ file_path \in SavePaths
  /\ disk = [p \in DiskPaths |-> IF p = file_path THEN FileOf(input) ELSE NoFile]
  /\ spc = [pc |-> "browse", temp_path |-> NoPath, before |-> input, saves |-> 0, edits |-> 0]

SaveFrame ==
  UNCHANGED <<build, varintVars, wireVars, sortVars, indentVars, viewVars, call, results, run,
              file_path>>

\* App::after_command, DataChanged: the Delete of a top-level field is applied
SaveChange ==
  /\ spc.pc = "browse" /\ spc.edits < MaxSaveEdits
  /\ \E i \in 1 .. Len(doc.fields) :
       doc' = apply(doc, Delete(<<FieldPos(FieldData_id(doc.fields[i]), 0)>>)).msg
  /\ spc' = [spc EXCEPT !.edits = @ + 1]
  /\ UNCHANGED disk
  /\ SaveFrame

\* save_document up to File::create: the file at temp_path is created or
\* truncated, or the call fails and `?` returns the error; spc.before keeps
\* what the file at file_path held when save_document was entered
SaveCreate(ok) ==
  /\ spc.pc = "browse" /\ spc.saves < MaxSaves
  /\ \E temp_path \in {set_extension(file_path, "tmp")} :
       IF ok
       THEN /\ disk' = [disk EXCEPT ![temp_path] = FileOf(<<>>)]
            /\ spc' = [spc EXCEPT !.pc = "open", !.temp_path = temp_path,
                                    !.before = disk[file_path].bytes]
       ELSE /\ spc' = [spc EXCEPT !.pc = "failed", !.temp_path = temp_path,
                                    !.before = disk[file_path].bytes]
            /\ UNCHANGED disk
  /\ UNCHANGED doc
  /\ SaveFrame

\* data.write on the unbuffered File: the next byte of the encoding reaches
\* the file, or the write fails and `?` returns the error
SaveWrite(ok) ==
  /\ spc.pc = "open"
  /\ \E encoding \in {MessageData_write(doc)} : \E written \in {Len(disk[spc.temp_path].bytes)} :
       /\ written < Len(encoding)
       /\ IF ok
          THEN /\ disk' = [disk EXCEPT ![spc.temp_path].bytes = Append(@, encoding[written + 1])]
               /\ UNCHANGED spc
          ELSE /\ spc' = [spc EXCEPT !.pc = "failed"]
               /\ UNCHANGED disk
  /\ UNCHANGED doc
  /\ SaveFrame

\* output.flush() (nothing to do for a File) and the end of the block, which
\* closes the file
SaveFlush ==
  /\ spc.pc = "open"
  /\ Len(disk[spc.temp_path].bytes) = Len(MessageData_write(doc))
  /\ spc' = [spc EXCEPT !.pc = "closed"]
  /\ UNCHANGED <<doc, disk>>
  /\ SaveFrame

\* std::fs::rename(temp_path, file_path) and Ok(false), or the error
SaveRename(ok) ==
  /\ spc.pc = "closed"
  /\ IF ok
     THEN /\ disk' = fs_rename(disk, spc.temp_path, file_path)
          /\ spc' = [spc EXCEPT !.pc = "browse", !.saves = @ + 1]
     ELSE /\ spc' = [spc EXCEPT !.pc = "failed"]
          /\ UNCHANGED disk
  /\ UNCHANGED doc
  /\ SaveFrame

SaveNext ==
  \/ SaveChange
  \/ \E ok \in BOOLEAN : SaveCreate(ok)
  \/ \E ok \in BOOLEAN : SaveWrite(ok)
  \/ SaveFlush
  \/ \E ok \in BOOLEAN : SaveRename(ok)

SpecSave == SaveInit /\ [][SaveNext]_vars

\* ----------------------------------------------------------------- C40
\* C40: from the entry of save_document until its rename has succeeded, and
\* for good if a step of it failed, the file at file_path holds what it held
\* at the entry, never a part of the new encoding; a successful rename
\* leaves the complete encoding of the document there
Saving == spc.pc \in {"open", "closed", "failed"}

SaveIsAtomic ==
  /\ [](Saving => disk[file_path] = FileOf(spc.before))
  /\ [][spc.pc = "closed" /\ spc'.pc = "browse" =>
         disk'[file_path] = FileOf(MessageData_write(doc))]_vars
====
